---- MODULE Spec2Model ----
(***************************************************************************)
(* Session and request lifecycle of oread-companion.                       *)
(*                                                                         *)
(*   Spec        the browser-side request coordinator (EmotionChatbot):    *)
(*               sendMessage, cancelPendingRequest, the blocking and the   *)
(*               streaming response handling, regenerateResponse.          *)
(*   SpecServer  the chat router (routes/chat.js) over the session         *)
(*               registry: cancel, starter, delete session, bulk delete.   *)
(*   SpecGenerate  the generate endpoints of the router, blocking and      *)
(*               streaming, for one session, with cancel calls.            *)
(*   SpecResolve the generate and the starter endpoint interleaving on     *)
(*               one session (session resolution).                         *)
(*   SpecSession Spec with clearSession and character selection.           *)
(*   SpecTab     SpecSession, streaming, with the page loaded again.       *)
(*   SpecOverlap starter fetches of the router overlapping, with the       *)
(*               bulk deletes.                                             *)
(*   SpecStarterText  the starter endpoint's cleanup of a generated text.  *)
(*   SpecCodec   processStreamingResponse reading a body cut into chunks.  *)
(*   SpecLive    Spec with every pending delivery to the tab arriving.     *)
(*   SpecTrack   the tracked request ids: generate requests of both        *)
(*               endpoints and cancel calls.                               *)
(*   SpecGate    the starter gate next to the generate endpoints.          *)
(*   SpecActiveProfile  ProfileController.setActiveProfile next to the     *)
(*               session registry.                                         *)
(*   SpecProfileCache   listProfiles, saveProfile and deleteProfile        *)
(*               overlapping on the profile-list cache.                    *)
(*                                                                         *)
(* One JavaScript event-loop turn (the code between two awaits) is one     *)
(* action.                                                                 *)
(***************************************************************************)
EXTENDS Integers, Sequences, FiniteSets, Bags, TLC

\* ---------------------------------------------------------------- bounds
\* sendMessage / regenerateResponse invocations per tab
MaxOps == 4
\* invocations per tab when the session id and the character change under
\* way (SpecSession)
MaxIdOps == 3
\* session ids generateUUID() hands out
MaxUuid == 2
\* requests the router handles at the same time
MaxSlots == 1
\* pieces (frames, stray text) a response body is made of
MaxPieces == 3
\* pieces of a generated starter text
MaxText == 3
\* starter fetches in flight where the claim is about their overlap
MaxOverlap == 2

Ops == 1..MaxOps
\* session ids of the tab: the first one and those generateUUID() adds
TabSessionIds == 1..(MaxUuid + 1)
Characters == {"Echo", "Kairos"}
NoChar == "null"     \* `${null}` in the request id template
NoReq == <<0, NoChar, 0>>   \* null request id

SessionIds == {"s1", "s2"}            \* session ids requests carry
RequestIds == {"r1", "r2"}            \* request ids requests carry
NoId == "null"
DefaultCharacter == "Echo"            \* the active profile

VARIABLES
    \* EmotionChatbot fields
    isConnected, isTyping, sessionId, selectedCharacter,
    latestRequestId, requestCounter,
    pendingAbortController, pendingRequestId,
    chatMessages,
    \* configuration and environment of the tab; storedCharacter is the
    \* sessionStorage entry chatSession_<sessionId>_character of each id
    useStreaming, storedCharacter, connectionChecked, profilesLoaded,
    nextUuid,
    \* the invocations of sendMessage / regenerateResponse, in call order
    ops, nOps,
    \* history (not read by the program)
    issued, rendered, cancelsSent,
    \* pendingAbortController and pendingRequestId as the last call of
    \* cancelPendingRequest left them when it returned
    cancelReturn,
    \* session registry (core/sessionManager.js as routes/chat.js uses it)
    sessions, lastActivity, charactersWithStarters, tracked,
    \* requests being handled by the chat router, and the last response
    reqs, resp,
    \* processStreamingResponse: the body sent, the part not yet read, the
    \* locals buffer and messageData, its position, and the log of the
    \* events it dispatched and the callbacks it called
    stream, wire, buffer, messageData, codecPc, log,
    \* the starter handler's text cleanup: result.response, the character
    \* captured at the gate check, cleanedResponse and the position
    response, cleanupName, cleanedResponse, cleanupPc,
    \* profile storage (the active profile and the stored profiles), the
    \* profile-list cache, the ProfileController calls being handled and
    \* what the last call returned
    activeProfile, storedProfiles, cachedProfileList, profileCalls,
    profileResult

clientVars == <<isConnected, isTyping, sessionId, selectedCharacter,
                latestRequestId, requestCounter,
                pendingAbortController, pendingRequestId,
                chatMessages,
                useStreaming, storedCharacter, connectionChecked,
                profilesLoaded, nextUuid,
                ops, nOps, issued, rendered, cancelsSent, cancelReturn>>

serverVars == <<sessions, lastActivity, charactersWithStarters, tracked,
                reqs, resp>>

codecVars == <<stream, wire, buffer, messageData, codecPc, log>>

cleanupVars == <<response, cleanupName, cleanedResponse, cleanupPc>>

profileVars == <<activeProfile, storedProfiles, cachedProfileList,
                 profileCalls, profileResult>>

vars == <<clientVars, serverVars, codecVars, cleanupVars, profileVars>>

\* what the coordinator, the router, the codec and the profile controller
\* leave alone
offClient == <<serverVars, codecVars, cleanupVars, profileVars>>
offServer == <<clientVars, codecVars, cleanupVars, profileVars>>
offCodec == <<clientVars, serverVars, cleanupVars, profileVars>>
offCleanup == <<clientVars, serverVars, codecVars, profileVars>>
offProfile == <<clientVars, codecVars, cleanupVars>>

\* ------------------------------------------------------------ helpers

IdleOp == [kind |-> "none", pc |-> "idle", rid |-> NoReq,
           aborted |-> FALSE, frames |-> <<>>,
           messageData |-> FALSE, target |-> 0, terminal |-> FALSE,
           issuedAtArrival |-> 0, result |-> "none"]

\* frames the streaming endpoint writes after the `connected` frame that
\* goes out with the response headers (routes/chat.js:117-155)
SuccessFrames == <<"message", "done">>
ErrorFrames == <<"error">>

\* an invocation that has returned: its locals (reader, buffer, messageData,
\* the abort controller) are gone, its request id and outcome are kept
Finished(o, res) == [IdleOp EXCEPT !.kind = o.kind, !.pc = "done",
                                   !.rid = o.rid, !.result = res]

\* isStaleResponse that never reports a response as stale
isStaleResponse_Never(requestId, latest) == FALSE

\* EmotionChatbot.isStaleResponse
isStaleResponse(requestId, latest) == requestId /= latest

\* the id built by generateRequestId from session, character and the
\* incremented counter; the trailing Date.now() reading is left out, which
\* can only make two ids of the model equal where the program's differ
NewRequestId(sid, ch, ctr) == <<sid, ch, ctr>>

Counter(rid) == rid[3]

\* index of the request id in the order of issue (0 when never issued)
PosOf(rid) ==
    IF \E k \in 1..Len(issued) : issued[k] = rid
    THEN CHOOSE k \in 1..Len(issued) : issued[k] = rid
    ELSE 0

\* a generation network operation that was issued and has neither
\* delivered its terminal frame / response nor failed nor been aborted
Outstanding(i) ==
    /\ ops[i].pc \in {"fetchWait", "reading"}
    /\ ~ops[i].aborted
    /\ ~ops[i].terminal

\* the last bot message that has a user message before it
\* (showRegenerateModal walks previousElementSibling to a user message)
RegenTargets ==
    {k \in 1..Len(chatMessages) :
        /\ chatMessages[k].sender = "bot"
        /\ \E j \in 1..(k-1) : chatMessages[j].sender = "user"
        /\ \A j \in (k+1)..Len(chatMessages) : chatMessages[j].sender /= "bot"}

\* ---------------------------------------------------------------- Init
InitClient ==
    /\ isConnected = FALSE
    /\ isTyping = FALSE
    /\ sessionId = 1
    /\ selectedCharacter \in Characters \cup {NoChar}
    /\ latestRequestId = NoReq
    /\ requestCounter = 0
    /\ pendingAbortController = 0
    /\ pendingRequestId = NoReq
    /\ chatMessages = <<>>
    /\ useStreaming \in BOOLEAN
    /\ storedCharacter =
          [s \in TabSessionIds |-> IF s = 1 THEN selectedCharacter ELSE NoChar]
    /\ connectionChecked = FALSE
    /\ profilesLoaded = FALSE
    /\ nextUuid = 2
    /\ ops = [i \in Ops |-> IdleOp]
    /\ nOps = 0
    /\ issued = <<>>
    /\ rendered = {}
    /\ cancelsSent = <<>>
    /\ cancelReturn = <<0, NoReq>>

\* ------------------------------------------------- coordinator pieces
\* EmotionChatbot.generateRequestId: advance the counter, build the id from
\* session, character and counter, make it the latest
generateRequestId ==
    /\ requestCounter' = requestCounter + 1
    /\ latestRequestId' =
           NewRequestId(sessionId, selectedCharacter, requestCounter + 1)
    /\ issued' = Append(issued, latestRequestId')

\* "if (this.pendingRequestId === requestId) { ... = null }"
ClearPendingIf(rid) ==
    IF pendingRequestId = rid
    THEN pendingAbortController' = 0 /\ pendingRequestId' = NoReq
    ELSE UNCHANGED <<pendingAbortController, pendingRequestId>>

\* variant: the request carries the id that was the latest before
\* generateRequestId ran
StartSend_StaleId(i) ==
    /\ chatMessages' = Append(chatMessages,
                              [sender |-> "user", op |-> i, rid |-> NoReq])
    /\ isTyping' = TRUE
    /\ generateRequestId
    /\ pendingAbortController' = i
    /\ pendingRequestId' = latestRequestId
    /\ ops' = [ops EXCEPT ![i] =
                 [IdleOp EXCEPT !.kind = "send", !.pc = "fetchWait",
                                !.rid = latestRequestId]]

\* the part of sendMessage after "await this.cancelPendingRequest()":
\* addMessage(user), setTyping(true), then sendMessageStreaming or
\* sendMessageBlocking up to the await of fetch
StartSend(i) ==
    /\ chatMessages' = Append(chatMessages,
                              [sender |-> "user", op |-> i, rid |-> NoReq])
    /\ isTyping' = TRUE
    /\ generateRequestId
    /\ pendingAbortController' = i
    /\ pendingRequestId' = latestRequestId'
    /\ ops' = [ops EXCEPT ![i] =
                 [IdleOp EXCEPT !.kind = "send", !.pc = "fetchWait",
                                !.rid = latestRequestId']]

\* ------------------------------------------------------- sendMessage
\* variant: the guard does not look at isTyping
SendMessage_IgnoresTyping ==
    /\ nOps < MaxOps
    /\ isConnected
    /\ ~(pendingAbortController /= 0 /\ pendingRequestId /= NoReq)
    /\ nOps' = nOps + 1
    /\ StartSend(nOps + 1)
    /\ UNCHANGED <<isConnected, sessionId, selectedCharacter, useStreaming,
                   storedCharacter, connectionChecked, profilesLoaded,
                   nextUuid, rendered,
                   cancelsSent>>
    /\ cancelReturn' = <<pendingAbortController, pendingRequestId>>

\* entry of sendMessage with nothing pending: cancelPendingRequest is a
\* no-op and the send proceeds within the same turn
SendMessage ==
    /\ nOps < MaxOps
    /\ ~isTyping /\ isConnected
    /\ ~(pendingAbortController /= 0 /\ pendingRequestId /= NoReq)
    /\ nOps' = nOps + 1
    /\ StartSend(nOps + 1)
    /\ UNCHANGED <<isConnected, sessionId, selectedCharacter, useStreaming,
                   storedCharacter, connectionChecked, profilesLoaded,
                   nextUuid, rendered,
                   cancelsSent>>
    /\ cancelReturn' = <<pendingAbortController, pendingRequestId>>

\* variant: the cancel notification is sent but the controller is not
\* aborted
SendMessageCancel_NoAbort ==
    /\ nOps < MaxOps
    /\ ~isTyping /\ isConnected
    /\ pendingAbortController /= 0 /\ pendingRequestId /= NoReq
    /\ nOps' = nOps + 1
    /\ ops' = [ops EXCEPT
                 ![nOps + 1] = [IdleOp EXCEPT !.kind = "send",
                                              !.pc = "cancelWait"]]
    /\ cancelsSent' = Append(cancelsSent, pendingRequestId)
    /\ UNCHANGED <<isConnected, isTyping, sessionId, selectedCharacter,
                   latestRequestId, requestCounter, pendingAbortController,
                   pendingRequestId, chatMessages, useStreaming,
                   storedCharacter, connectionChecked, profilesLoaded, nextUuid,
                   issued, rendered, cancelReturn>>

\* entry of sendMessage with a pending request: cancelPendingRequest aborts
\* the pending controller and awaits the POST to /api/chat/cancel
SendMessageCancel ==
    /\ nOps < MaxOps
    /\ ~isTyping /\ isConnected
    /\ pendingAbortController /= 0 /\ pendingRequestId /= NoReq
    /\ nOps' = nOps + 1
    /\ ops' = [ops EXCEPT
                 ![pendingAbortController].aborted = (@ \/ ops[pendingAbortController].pc /= "done"),
                 ![nOps + 1] = [IdleOp EXCEPT !.kind = "send",
                                              !.pc = "cancelWait"]]
    /\ cancelsSent' = Append(cancelsSent, pendingRequestId)
    /\ UNCHANGED <<isConnected, isTyping, sessionId, selectedCharacter,
                   latestRequestId, requestCounter, pendingAbortController,
                   pendingRequestId, chatMessages, useStreaming,
                   storedCharacter, connectionChecked, profilesLoaded, nextUuid,
                   issued, rendered, cancelReturn>>

\* the cancel notification was answered or failed (the failure is caught):
\* cancelPendingRequest nulls the pending fields and sendMessage goes on
CancelReturns(i) ==
    /\ ops[i].pc = "cancelWait"
    /\ StartSend(i)
    /\ UNCHANGED <<isConnected, sessionId, selectedCharacter, useStreaming,
                   storedCharacter, connectionChecked, profilesLoaded,
                   nextUuid, nOps,
                   rendered, cancelsSent>>
    /\ cancelReturn' = <<0, NoReq>>

\* ------------------------------------------------ response handling
Env == <<isConnected, selectedCharacter, useStreaming, storedCharacter,
         connectionChecked,
         profilesLoaded, nextUuid, nOps, cancelsSent, cancelReturn>>
Ids == <<latestRequestId, requestCounter, issued>>

BotMessage(i) == [sender |-> "bot", op |-> i, rid |-> ops[i].rid]

RenderRecord(i, atArrival) ==
    [op |-> i, rid |-> ops[i].rid, atArrival |-> atArrival,
     atRender |-> Len(issued)]

\* variant: the catch treats an AbortError like any other error
SendCatch_ShowsAbort(i, isAbort) ==
    /\ ClearPendingIf(ops[i].rid)
    /\ isTyping' = FALSE
    /\ ops' = [ops EXCEPT ![i] = Finished(@, "errorShown")]
    /\ UNCHANGED <<sessionId, chatMessages, rendered>>

\* catch of sendMessageStreaming / sendMessageBlocking (clear the pending
\* fields when they are this request's) followed by the catch of
\* sendMessage: setTyping(false), and showError unless it is an AbortError
SendCatch(i, isAbort) ==
    /\ ClearPendingIf(ops[i].rid)
    /\ isTyping' = FALSE
    /\ ops' = [ops EXCEPT ![i] = Finished(@, IF isAbort THEN "cancelled"
                                                         ELSE "errorShown")]
    /\ UNCHANGED <<sessionId, chatMessages, rendered>>

\* catch of regenerateResponse: setTyping(false), showError
RegenCatch(i) ==
    /\ isTyping' = FALSE
    /\ ops' = [ops EXCEPT ![i] = Finished(@, "errorShown")]
    /\ UNCHANGED <<sessionId, chatMessages, rendered,
                   pendingAbortController, pendingRequestId>>

\* the onDone callback sendMessageStreaming passes to the codec
SendOnDone(i) ==
    /\ ClearPendingIf(ops[i].rid)
    /\ isTyping' = FALSE
    /\ IF isStaleResponse(ops[i].rid, latestRequestId)
       THEN /\ ops' = [ops EXCEPT ![i].frames = Tail(@), ![i].terminal = TRUE,
                                  ![i].result = "stale"]
            /\ UNCHANGED <<chatMessages, rendered>>
       ELSE /\ ops' = [ops EXCEPT ![i].frames = Tail(@), ![i].terminal = TRUE,
                                  ![i].result = "rendered"]
            /\ chatMessages' = Append(chatMessages, BotMessage(i))
            /\ rendered' = rendered \cup {RenderRecord(i, Len(issued))}
    /\ UNCHANGED sessionId

\* the onDone callback regenerateResponse passes to the codec: the bubble of
\* the regenerated bot message is overwritten, no staleness check
RegenOnDone(i) ==
    /\ isTyping' = FALSE
    /\ chatMessages' = [chatMessages EXCEPT ![ops[i].target] =
                          [sender |-> "bot", op |-> i, rid |-> NoReq]]
    /\ ops' = [ops EXCEPT ![i].frames = Tail(@), ![i].terminal = TRUE,
                          ![i].result = "rendered"]
    /\ UNCHANGED <<sessionId, rendered, pendingAbortController,
                   pendingRequestId>>

\* fetch resolves with a response that is not ok: "throw new Error(HTTP...)"
FetchHttpError(i) ==
    /\ ops[i].pc = "fetchWait" /\ ~ops[i].aborted
    /\ IF ops[i].kind = "send" THEN SendCatch(i, FALSE) ELSE RegenCatch(i)
    /\ UNCHANGED <<Env, Ids>>

\* fetch or reader.read() rejects with a network error
NetworkError(i) ==
    /\ ops[i].pc \in {"fetchWait", "reading"} /\ ~ops[i].aborted
    /\ IF ops[i].kind = "send" THEN SendCatch(i, FALSE) ELSE RegenCatch(i)
    /\ UNCHANGED <<Env, Ids>>

\* fetch or reader.read() rejects with AbortError after controller.abort()
AbortDelivered(i) ==
    /\ ops[i].pc \in {"fetchWait", "reading"} /\ ops[i].aborted
    /\ SendCatch(i, TRUE)
    /\ UNCHANGED <<Env, Ids>>

\* streaming: fetch resolves ok and the `connected` block is read (its
\* dispatch only logs); the body will carry the frames the streaming
\* endpoint writes for a success or for a failure
StreamOpens(i) ==
    /\ ops[i].pc = "fetchWait" /\ ~ops[i].aborted
    /\ ops[i].kind = "regen" \/ useStreaming
    /\ \E fs \in {SuccessFrames, ErrorFrames} :
          ops' = [ops EXCEPT ![i].pc = "reading", ![i].frames = fs]
    /\ UNCHANGED <<isTyping, sessionId, chatMessages, rendered,
                   pendingAbortController, pendingRequestId, Env, Ids>>

\* variant: the message frame of a send is rendered when it is dispatched
ReadFrame_RendersMessage(i) ==
    /\ ops[i].pc = "reading" /\ ~ops[i].aborted
    /\ ops[i].frames /= <<>>
    /\ LET f == Head(ops[i].frames) IN
       CASE f = "message" /\ ops[i].kind = "send" ->
              /\ ops' = [ops EXCEPT ![i].frames = Tail(@),
                                    ![i].messageData = TRUE,
                                    ![i].result = "rendered"]
              /\ chatMessages' = Append(chatMessages, BotMessage(i))
              /\ UNCHANGED <<isTyping, sessionId, rendered,
                             pendingAbortController, pendingRequestId>>
         [] f = "message" /\ ops[i].kind /= "send" ->
              /\ ops' = [ops EXCEPT ![i].frames = Tail(@),
                                    ![i].messageData = TRUE]
              /\ UNCHANGED <<isTyping, sessionId, chatMessages, rendered,
                             pendingAbortController, pendingRequestId>>
         [] f = "done" /\ ops[i].messageData ->
              IF ops[i].kind = "send" THEN SendOnDone(i) ELSE RegenOnDone(i)
         [] f = "done" /\ ~ops[i].messageData ->
              /\ ops' = [ops EXCEPT ![i].frames = Tail(@),
                                    ![i].terminal = TRUE]
              /\ UNCHANGED <<isTyping, sessionId, chatMessages, rendered,
                             pendingAbortController, pendingRequestId>>
         [] f = "error" ->
              /\ ops' = [ops EXCEPT ![i].frames = Tail(@),
                                    ![i].terminal = TRUE]
              /\ UNCHANGED <<isTyping, sessionId, chatMessages, rendered,
                             pendingAbortController, pendingRequestId>>
    /\ UNCHANGED <<Env, Ids>>

\* processStreamingResponse: one complete event block is dispatched
ReadFrame(i) ==
    /\ ops[i].pc = "reading" /\ ~ops[i].aborted
    /\ ops[i].frames /= <<>>
    /\ LET f == Head(ops[i].frames) IN
       CASE f = "message" ->
              /\ ops' = [ops EXCEPT ![i].frames = Tail(@),
                                    ![i].messageData = TRUE]
              /\ UNCHANGED <<isTyping, sessionId, chatMessages, rendered,
                             pendingAbortController, pendingRequestId>>
         [] f = "done" /\ ops[i].messageData ->
              IF ops[i].kind = "send" THEN SendOnDone(i) ELSE RegenOnDone(i)
         [] f = "done" /\ ~ops[i].messageData ->
              /\ ops' = [ops EXCEPT ![i].frames = Tail(@),
                                    ![i].terminal = TRUE]
              /\ UNCHANGED <<isTyping, sessionId, chatMessages, rendered,
                             pendingAbortController, pendingRequestId>>
         [] f = "error" ->
              \* the Error thrown for an error frame is caught by the
              \* catch (parseError) around the dispatch and only logged
              /\ ops' = [ops EXCEPT ![i].frames = Tail(@),
                                    ![i].terminal = TRUE]
              /\ UNCHANGED <<isTyping, sessionId, chatMessages, rendered,
                             pendingAbortController, pendingRequestId>>
    /\ UNCHANGED <<Env, Ids>>

\* reader.read() reports done: processStreamingResponse returns and the
\* invocation ends without touching the coordinator
StreamEnds(i) ==
    /\ ops[i].pc = "reading" /\ ~ops[i].aborted
    /\ ops[i].frames = <<>>
    /\ ops' = [ops EXCEPT ![i] = Finished(@, @.result)]
    /\ UNCHANGED <<isTyping, sessionId, chatMessages, rendered,
                   pendingAbortController, pendingRequestId, Env, Ids>>

\* blocking: the JSON body arrived (sendMessageBlocking after the awaits)
BlockingResponse(i) ==
    /\ ops[i].pc = "fetchWait" /\ ~ops[i].aborted
    /\ ops[i].kind = "send" /\ ~useStreaming
    /\ ClearPendingIf(ops[i].rid)
    /\ IF isStaleResponse(ops[i].rid, latestRequestId)
       THEN /\ isTyping' = FALSE
            /\ ops' = [ops EXCEPT ![i] = Finished(@, "stale")]
            /\ UNCHANGED sessionId
       ELSE /\ sessionId' = ops[i].rid[1]
            /\ ops' = [ops EXCEPT ![i].pc = "timer", ![i].terminal = TRUE,
                                  ![i].issuedAtArrival = Len(issued)]
            /\ UNCHANGED isTyping
    /\ UNCHANGED <<chatMessages, rendered, Env, Ids>>

\* the setTimeout callback without the second staleness check
TimerFires_NoRecheck(i) ==
    /\ ops[i].pc = "timer"
    /\ ops' = [ops EXCEPT ![i] = Finished(@, "rendered")]
    /\ chatMessages' = Append(chatMessages, BotMessage(i))
    /\ rendered' = rendered \cup {RenderRecord(i, ops[i].issuedAtArrival)}
    /\ isTyping' = FALSE
    /\ UNCHANGED <<sessionId, pendingAbortController, pendingRequestId,
                   Env, Ids>>

\* variant: the delayed callback of a stale response ends the generating
\* state
TimerFires_StaleStopsTyping(i) ==
    /\ ops[i].pc = "timer"
    /\ IF isStaleResponse(ops[i].rid, latestRequestId)
       THEN /\ ops' = [ops EXCEPT ![i] = Finished(@, "staleAfterDelay")]
            /\ isTyping' = FALSE
            /\ UNCHANGED <<chatMessages, rendered>>
       ELSE /\ ops' = [ops EXCEPT ![i] = Finished(@, "rendered")]
            /\ chatMessages' = Append(chatMessages, BotMessage(i))
            /\ rendered' = rendered \cup
                              {RenderRecord(i, ops[i].issuedAtArrival)}
            /\ isTyping' = FALSE
    /\ UNCHANGED <<sessionId, pendingAbortController, pendingRequestId,
                   Env, Ids>>

\* blocking: the setTimeout callback of the smoothing delay
TimerFires(i) ==
    /\ ops[i].pc = "timer"
    /\ IF isStaleResponse(ops[i].rid, latestRequestId)
       THEN /\ ops' = [ops EXCEPT ![i] = Finished(@, "staleAfterDelay")]
            /\ UNCHANGED <<isTyping, chatMessages, rendered>>
       ELSE /\ ops' = [ops EXCEPT ![i] = Finished(@, "rendered")]
            /\ chatMessages' = Append(chatMessages, BotMessage(i))
            /\ rendered' = rendered \cup
                              {RenderRecord(i, ops[i].issuedAtArrival)}
            /\ isTyping' = FALSE
    /\ UNCHANGED <<sessionId, pendingAbortController, pendingRequestId,
                   Env, Ids>>

\* ------------------------------------------------ regenerateResponse
\* guard, setTyping(true) and the fetch to /api/chat/stream: no request id,
\* no abort controller, no cancelPendingRequest
RegenerateResponse ==
    /\ nOps < MaxOps
    /\ ~isTyping /\ isConnected
    /\ \E k \in RegenTargets :
          ops' = [ops EXCEPT ![nOps + 1] =
                    [IdleOp EXCEPT !.kind = "regen", !.pc = "fetchWait",
                                   !.target = k]]
    /\ nOps' = nOps + 1
    /\ isTyping' = TRUE
    /\ UNCHANGED <<isConnected, sessionId, selectedCharacter, chatMessages,
                   pendingAbortController, pendingRequestId, useStreaming,
                   storedCharacter, connectionChecked, profilesLoaded,
                   nextUuid, rendered,
                   cancelsSent, cancelReturn, Ids>>

\* ------------------------------------------------------ other methods
\* checkConnection -> setConnectionStatus(ok)
CheckConnection ==
    /\ ~connectionChecked
    /\ connectionChecked' = TRUE
    /\ isConnected' \in BOOLEAN
    /\ UNCHANGED <<isTyping, sessionId, selectedCharacter, chatMessages,
                   pendingAbortController, pendingRequestId, useStreaming,
                   storedCharacter, profilesLoaded, nextUuid, ops, nOps,
                   rendered,
                   cancelsSent, cancelReturn, Ids>>

\* loadProfiles -> setSessionCharacter(characterToLoad)
SetSessionCharacter ==
    /\ ~profilesLoaded
    /\ profilesLoaded' = TRUE
    /\ selectedCharacter' \in Characters
    /\ storedCharacter' =
          [storedCharacter EXCEPT ![sessionId] = selectedCharacter']
    /\ UNCHANGED <<isConnected, isTyping, sessionId, chatMessages,
                   pendingAbortController, pendingRequestId, useStreaming,
                   connectionChecked, nextUuid, ops, nOps, rendered,
                   cancelsSent, cancelReturn, Ids>>

\* clearSession that also resets the request tracking
ClearSession_ResetsLatest ==
    /\ nextUuid <= MaxUuid
    /\ sessionId' = nextUuid
    /\ nextUuid' = nextUuid + 1
    /\ latestRequestId' = NoReq
    /\ requestCounter' = 0
    /\ UNCHANGED <<isConnected, isTyping, selectedCharacter, chatMessages,
                   pendingAbortController, pendingRequestId, useStreaming,
                   storedCharacter, connectionChecked, profilesLoaded, ops,
                   nOps, rendered,
                   cancelsSent, cancelReturn, issued>>

\* EmotionChatbot.clearSession: a new session id, nothing else
ClearSession ==
    /\ nextUuid <= MaxUuid
    /\ sessionId' = nextUuid
    /\ nextUuid' = nextUuid + 1
    /\ UNCHANGED <<isConnected, isTyping, selectedCharacter, chatMessages,
                   pendingAbortController, pendingRequestId, useStreaming,
                   storedCharacter, connectionChecked, profilesLoaded, ops,
                   nOps, rendered,
                   cancelsSent, cancelReturn, Ids>>

\* an invocation whose page was unloaded: its fetch and its callbacks are
\* gone with the document
Unloaded(o) ==
    IF o.pc \in {"idle", "done"} THEN o ELSE Finished(o, "unloaded")

\* the page is loaded again in the same tab: DOMContentLoaded constructs a
\* new EmotionChatbot, whose constructor takes chatSessionId and the
\* session's character from sessionStorage and starts the request tracking
\* from null and 0
PageReload ==
    /\ isConnected' = FALSE
    /\ isTyping' = FALSE
    /\ selectedCharacter' = storedCharacter[sessionId]
    /\ latestRequestId' = NoReq
    /\ requestCounter' = 0
    /\ pendingAbortController' = 0
    /\ pendingRequestId' = NoReq
    /\ chatMessages' = <<>>
    /\ connectionChecked' = FALSE
    /\ profilesLoaded' = FALSE
    /\ ops' = [i \in Ops |-> Unloaded(ops[i])]
    /\ cancelReturn' = <<0, NoReq>>
    /\ UNCHANGED <<sessionId, useStreaming, storedCharacter, nextUuid, nOps,
                   issued, rendered, cancelsSent>>

\* =================================================== the chat router
Absent == [present |-> FALSE, character |-> NoChar]

\* a request being handled: the endpoint, the position of its handler, what
\* it carries, the character and the gate reading its handler captured and
\* the res.write calls made so far
Request(kind, pc, sid, ch, rid, force, gateAtCheck, writes) ==
    [kind |-> kind, pc |-> pc, sid |-> sid, ch |-> ch, rid |-> rid,
     force |-> force, gateAtCheck |-> gateAtCheck, writes |-> writes]

\* the profile-list cache holds no list / holds this list
NoList == [valid |-> FALSE, list |-> {}]
Cached(list) == [valid |-> TRUE, list |-> list]

\* what a ProfileController call returned; seq tells two equal results apart
NoResult == [seq |-> 0, op |-> "none", ok |-> TRUE, name |-> NoChar,
             list |-> {}, cached |-> FALSE]

NoResp == [seq |-> 0, endpoint |-> "none", status |-> 0, sid |-> NoId,
           ch |-> NoChar, rid |-> NoId, skip |-> FALSE, starter |-> FALSE,
           needsStarter |-> FALSE, count |-> 0, writes |-> <<>>]

\* a response leaves the router; seq tells two equal responses apart
Respond(r) == resp' = [r EXCEPT !.seq = 1 - resp.seq]

One(r) == SetToBag({r})

\* the number of requests of an endpoint that are being handled
InFlight(kind) ==
    BagCardinality([r \in {q \in BagToSet(reqs) : q.kind = kind}
                       |-> CopiesIn(r, reqs)])

InitServer ==
    /\ sessions = [s \in SessionIds |-> Absent]
    /\ lastActivity = {}
    /\ charactersWithStarters = {}
    /\ tracked = [s \in SessionIds |-> NoId]
    /\ reqs = EmptyBag
    /\ resp = NoResp
    /\ activeProfile = DefaultCharacter
    /\ storedProfiles = Characters
    /\ cachedProfileList = NoList
    /\ profileCalls = EmptyBag
    /\ profileResult = NoResult

\* ------------------------------------------ session manager operations
\* getChatbot: create the session with the requested (or the default)
\* character, or rebind an existing session to the requested character
getChatbot(sid, ch) ==
    [sessions EXCEPT ![sid] =
        IF ~@.present
        THEN [present |-> TRUE,
              character |-> IF ch = NoChar THEN activeProfile ELSE ch]
        ELSE IF ch /= NoChar /\ ch /= @.character
             THEN [@ EXCEPT !.character = ch]
             ELSE @]

\* trackRequestId: the request id becomes the latest of the session
trackRequestId(sid, rid) == [tracked EXCEPT ![sid] = rid]

\* needsStarter: the character has not shown a starter yet
needsStarter(ch) == ch \notin charactersWithStarters

\* markStarterShown
markStarterShown(ch) == charactersWithStarters \cup {ch}

\* deleteSession: remove all state of the session; a no-op when absent
deleteSession(sid) ==
    /\ sessions' = [sessions EXCEPT ![sid] = Absent]
    /\ lastActivity' = lastActivity \ {sid}
    /\ tracked' = [tracked EXCEPT ![sid] = NoId]

\* chatbot.getActiveCharacterName() on the handle getChatbot returned
getActiveCharacterName(registry, sid) == registry[sid].character

\* "const chatbot = await sessionManager.getChatbot(...)" resolves: the
\* session exists, is bound as asked and counts as active
Resolve(r) ==
    /\ sessions' = getChatbot(r.sid, r.ch)
    /\ lastActivity' = lastActivity \cup {r.sid}

\* the imports of routes/chat.js do not bring in getInferenceClient and the
\* module does not define it: calling it throws a ReferenceError
getInferenceClientDefined == FALSE

\* --------------------------------------------------------- POST /chat
\* validation, then the call of getChatbot
ChatBegin_TracksFirst(sid, rid) ==
    /\ InFlight("chat") < MaxSlots
    /\ tracked' = trackRequestId(sid, rid)
    /\ \E valid \in BOOLEAN, ch \in Characters \cup {NoChar} :
          IF ~valid
          THEN /\ Respond([NoResp EXCEPT !.endpoint = "chat", !.status = 400])
               /\ UNCHANGED reqs
          ELSE /\ reqs' = reqs (+) One(Request("chat", "resolving", sid, ch,
                                               rid, FALSE, FALSE, <<>>))
               /\ UNCHANGED resp
    /\ UNCHANGED <<sessions, lastActivity, charactersWithStarters>>

\* validation (400), then the call of getChatbot
ChatBegin(sid, rid) ==
    /\ InFlight("chat") < MaxSlots
    /\ \E valid \in BOOLEAN, ch \in Characters \cup {NoChar} :
          IF ~valid
          THEN /\ Respond([NoResp EXCEPT !.endpoint = "chat", !.status = 400])
               /\ UNCHANGED reqs
          ELSE /\ reqs' = reqs (+) One(Request("chat", "resolving", sid, ch,
                                               rid, FALSE, FALSE, <<>>))
               /\ UNCHANGED resp
    /\ UNCHANGED <<sessions, lastActivity, charactersWithStarters, tracked>>

\* getChatbot resolved (or threw: 500): the request id is tracked, the
\* active character and needsStarter are read, processMessage starts
ChatResolved(r) ==
    /\ BagIn(r, reqs) /\ r.kind = "chat" /\ r.pc = "resolving"
    /\ \E ok \in BOOLEAN :
          IF ok
          THEN /\ Resolve(r)
               /\ tracked' = trackRequestId(r.sid, r.rid)
               /\ LET activeCharacterName ==
                         getActiveCharacterName(sessions', r.sid) IN
                  reqs' = (reqs (-) One(r)) (+)
                          One([r EXCEPT !.pc = "generating",
                                        !.ch = activeCharacterName,
                                        !.gateAtCheck =
                                           ~needsStarter(activeCharacterName)])
               /\ UNCHANGED resp
          ELSE /\ Respond([NoResp EXCEPT !.endpoint = "chat", !.status = 500])
               /\ reqs' = reqs (-) One(r)
               /\ UNCHANGED <<sessions, lastActivity, tracked>>
    /\ UNCHANGED charactersWithStarters

\* variant: the active character is read when the response is built
ChatGenerated_ReadsLate(r) ==
    /\ BagIn(r, reqs) /\ r.kind = "chat" /\ r.pc = "generating"
    /\ \E ok \in BOOLEAN :
          IF ok
          THEN Respond([NoResp EXCEPT
                          !.endpoint = "chat", !.status = 200,
                          !.ch = getActiveCharacterName(sessions, r.sid),
                          !.needsStarter = ~r.gateAtCheck])
          ELSE Respond([NoResp EXCEPT !.endpoint = "chat", !.status = 500])
    /\ reqs' = reqs (-) One(r)
    /\ UNCHANGED <<sessions, lastActivity, charactersWithStarters, tracked>>

\* variant: needsStarter is read when the response is built
ChatGenerated_GateReadLate(r) ==
    /\ BagIn(r, reqs) /\ r.kind = "chat" /\ r.pc = "generating"
    /\ \E ok \in BOOLEAN :
          IF ok
          THEN Respond([NoResp EXCEPT !.endpoint = "chat", !.status = 200,
                                      !.ch = r.ch,
                                      !.needsStarter = needsStarter(r.ch)])
          ELSE Respond([NoResp EXCEPT !.endpoint = "chat", !.status = 500])
    /\ reqs' = reqs (-) One(r)
    /\ UNCHANGED <<sessions, lastActivity, charactersWithStarters, tracked>>

\* processMessage returned: the response carries the captured character,
\* the request id and needsStarter; or it threw: 500
ChatGenerated(r) ==
    /\ BagIn(r, reqs) /\ r.kind = "chat" /\ r.pc = "generating"
    /\ \E ok \in BOOLEAN :
          IF ok
          THEN Respond([NoResp EXCEPT !.endpoint = "chat", !.status = 200,
                                      !.ch = r.ch,
                                      !.needsStarter = ~r.gateAtCheck])
          ELSE Respond([NoResp EXCEPT !.endpoint = "chat", !.status = 500])
    /\ reqs' = reqs (-) One(r)
    /\ UNCHANGED <<sessions, lastActivity, charactersWithStarters, tracked>>

\* -------------------------------------------------- POST /chat/stream
\* res.write('event: <type>\n') and res.write(`data: ...\n\n`)
EventLine(type) == [line |-> "event", type |-> type, sid |-> NoId,
                    rid |-> NoId]
DataLine(sid, rid) == [line |-> "data", type |-> "", sid |-> sid, rid |-> rid]

\* the frames a sequence of writes makes: a data line ends a block, and the
\* last event line of the block names it
RECURSIVE FramesOf(_, _)
FramesOf(writes, type) ==
    IF writes = <<>> THEN <<>>
    ELSE IF Head(writes).line = "event"
         THEN FramesOf(Tail(writes), Head(writes).type)
         ELSE <<type>> \o FramesOf(Tail(writes), "message")

\* variant: the connected frame is written after getChatbot resolved
StreamBegin_LateConnected(sid, rid) ==
    /\ InFlight("stream") < MaxSlots
    /\ \E valid \in BOOLEAN, ch \in Characters \cup {NoChar} :
          IF ~valid
          THEN /\ Respond([NoResp EXCEPT !.endpoint = "stream",
                                         !.status = 400])
               /\ UNCHANGED reqs
          ELSE /\ reqs' = reqs (+) One(Request("stream", "resolving", sid, ch,
                                               rid, FALSE, FALSE, <<>>))
               /\ UNCHANGED resp
    /\ UNCHANGED <<sessions, lastActivity, charactersWithStarters, tracked>>

\* validation, the connected frame, then the call of getChatbot
StreamBegin(sid, rid) ==
    /\ InFlight("stream") < MaxSlots
    /\ \E valid \in BOOLEAN, ch \in Characters \cup {NoChar} :
          IF ~valid
          THEN /\ Respond([NoResp EXCEPT !.endpoint = "stream",
                                         !.status = 400])
               /\ UNCHANGED reqs
          ELSE /\ reqs' = reqs (+)
                     One(Request("stream", "resolving", sid, ch, rid, FALSE,
                                 FALSE, <<EventLine("connected"),
                                          DataLine(sid, rid)>>))
               /\ UNCHANGED resp
    /\ UNCHANGED <<sessions, lastActivity, charactersWithStarters, tracked>>

\* variant: the exception leaves the handler and nothing is written
StreamFails_Escapes(r, writes) ==
    /\ reqs' = reqs (-) One(r)
    /\ UNCHANGED resp

\* the catch of the handler: the error frame, res.end()
StreamFails(r, writes) ==
    /\ Respond([NoResp EXCEPT !.endpoint = "stream", !.status = 200,
                   !.writes = writes \o <<EventLine("error"),
                                          DataLine(NoId, NoId)>>])
    /\ reqs' = reqs (-) One(r)

\* variant: a request id is tracked only where none is tracked yet
StreamResolved_KeepsTracked(r) ==
    /\ BagIn(r, reqs) /\ r.kind = "stream" /\ r.pc = "resolving"
    /\ \E ok \in BOOLEAN :
          IF ok
          THEN /\ Resolve(r)
               /\ tracked' = IF tracked[r.sid] = NoId
                              THEN trackRequestId(r.sid, r.rid)
                              ELSE tracked
               /\ reqs' = (reqs (-) One(r)) (+)
                          One([r EXCEPT !.pc = "generating", !.ch = NoChar])
               /\ UNCHANGED resp
          ELSE /\ StreamFails(r, r.writes)
               /\ UNCHANGED <<sessions, lastActivity, tracked>>
    /\ UNCHANGED charactersWithStarters

\* getChatbot resolved (or threw): the request id is tracked and
\* processMessage starts
StreamResolved(r) ==
    /\ BagIn(r, reqs) /\ r.kind = "stream" /\ r.pc = "resolving"
    /\ \E ok \in BOOLEAN :
          IF ok
          THEN /\ Resolve(r)
               /\ tracked' = trackRequestId(r.sid, r.rid)
               /\ reqs' = (reqs (-) One(r)) (+)
                          One([r EXCEPT !.pc = "generating", !.ch = NoChar])
               /\ UNCHANGED resp
          ELSE /\ StreamFails(r, r.writes)
               /\ UNCHANGED <<sessions, lastActivity, tracked>>
    /\ UNCHANGED charactersWithStarters

\* processMessage returned: the message and done frames, res.end(); or it
\* threw; or its result has no metadata, and building the data of the
\* message frame throws after 'event: message\n' was written
StreamGenerated(r) ==
    /\ BagIn(r, reqs) /\ r.kind = "stream" /\ r.pc = "generating"
    /\ \E outcome \in {"result", "throws", "noMetadata"} :
          CASE outcome = "result" ->
                 /\ Respond([NoResp EXCEPT
                       !.endpoint = "stream", !.status = 200,
                       !.writes = r.writes \o
                           <<EventLine("message"), DataLine(r.sid, r.rid),
                             EventLine("done"), DataLine(NoId, NoId)>>])
                 /\ reqs' = reqs (-) One(r)
            [] outcome = "throws" -> StreamFails(r, r.writes)
            [] outcome = "noMetadata" ->
                 StreamFails(r, Append(r.writes, EventLine("message")))
    /\ UNCHANGED <<sessions, lastActivity, charactersWithStarters, tracked>>

\* ------------------------------------------------ POST /chat/cancel
\* 400 without a requestId; otherwise getInferenceClient() is called, and
\* were it defined the outcome of cancelRequest would be swallowed
\* variant: the requestId is looked at after the inference client
CancelRequest_ChecksLate ==
    /\ \E sid \in SessionIds, rid \in RequestIds \cup {NoId} :
          IF ~getInferenceClientDefined
          THEN Respond([NoResp EXCEPT !.endpoint = "cancel", !.status = 500,
                                      !.sid = sid, !.rid = rid])
          ELSE IF rid = NoId
          THEN Respond([NoResp EXCEPT !.endpoint = "cancel", !.status = 400])
          ELSE Respond([NoResp EXCEPT !.endpoint = "cancel", !.status = 200,
                                      !.sid = sid, !.rid = rid])
    /\ UNCHANGED <<sessions, lastActivity, charactersWithStarters, tracked,
                   reqs>>

CancelRequest ==
    /\ \E sid \in SessionIds, rid \in RequestIds \cup {NoId} :
          IF rid = NoId
          THEN Respond([NoResp EXCEPT !.endpoint = "cancel", !.status = 400])
          ELSE IF ~getInferenceClientDefined
          THEN Respond([NoResp EXCEPT !.endpoint = "cancel", !.status = 500,
                                      !.sid = sid, !.rid = rid])
          ELSE Respond([NoResp EXCEPT !.endpoint = "cancel", !.status = 200,
                                      !.sid = sid, !.rid = rid])
    /\ UNCHANGED <<sessions, lastActivity, charactersWithStarters, tracked,
                   reqs>>

\* --------------------------------------- DELETE /chat/session/:sessionId
\* variant: deleting a session also forgets the starter of its character
DeleteSessionRequest_ForgetsStarter ==
    /\ \E sid \in SessionIds :
          /\ deleteSession(sid)
          /\ charactersWithStarters' =
                 charactersWithStarters \ {sessions[sid].character}
          /\ Respond([NoResp EXCEPT !.endpoint = "deleteSession",
                                    !.status = 200, !.sid = sid])
    /\ UNCHANGED reqs

DeleteSessionRequest ==
    /\ \E sid \in SessionIds :
          /\ deleteSession(sid)
          /\ Respond([NoResp EXCEPT !.endpoint = "deleteSession",
                                    !.status = 200, !.sid = sid])
    /\ UNCHANGED <<charactersWithStarters, reqs>>

\* ------------------------------------------------- GET /chat/starter
\* the query is read and getChatbot is called
StarterBegin(sid, force, slots) ==
    /\ InFlight("starter") < slots
    /\ \E ch \in Characters \cup {NoChar} :
          reqs' = reqs (+) One(Request("starter", "resolving", sid, ch, NoId,
                                       force, FALSE, <<>>))
    /\ UNCHANGED <<sessions, lastActivity, charactersWithStarters, tracked,
                   resp>>

\* variant: the gate is consulted also for a forced fetch
SkipsStarter_IgnoresForce(r, activeCharacterName) ==
    ~needsStarter(activeCharacterName)

\* "if (!forceRegenerate && !sessionManager.needsStarter(...))"
SkipsStarter(r, activeCharacterName) ==
    ~r.force /\ ~needsStarter(activeCharacterName)

\* the gate check of the starter handler, and what follows it
GateCheck(r) ==
    LET activeCharacterName == getActiveCharacterName(sessions', r.sid) IN
    IF SkipsStarter(r, activeCharacterName)
    THEN /\ Respond([NoResp EXCEPT !.endpoint = "starter", !.status = 200,
                        !.ch = activeCharacterName,
                        !.skip = TRUE, !.starter = FALSE])
         /\ reqs' = reqs (-) One(r)
    ELSE /\ reqs' = (reqs (-) One(r)) (+)
                    One([r EXCEPT !.pc = "generating",
                                  !.ch = activeCharacterName,
                                  !.gateAtCheck =
                                     ~needsStarter(activeCharacterName)])
         /\ UNCHANGED resp

\* getChatbot resolved (or threw: 500): skip when the gate is shown and the
\* fetch is not forced, otherwise processMessage(starterPrompt, ...,
\* skipHistory) starts
StarterResolved(r) ==
    /\ BagIn(r, reqs) /\ r.kind = "starter" /\ r.pc = "resolving"
    /\ \E ok \in BOOLEAN :
          IF ok
          THEN /\ Resolve(r)
               /\ GateCheck(r)
          ELSE /\ Respond([NoResp EXCEPT !.endpoint = "starter",
                                         !.status = 500])
               /\ reqs' = reqs (-) One(r)
               /\ UNCHANGED <<sessions, lastActivity>>
    /\ UNCHANGED <<charactersWithStarters, tracked>>

\* variant: the starter is returned without marking the character
StarterGenerated_NoMark(r) ==
    /\ BagIn(r, reqs) /\ r.kind = "starter" /\ r.pc = "generating"
    /\ \E ok \in BOOLEAN :
          IF ok
          THEN Respond([NoResp EXCEPT !.endpoint = "starter", !.status = 200,
                           !.ch = r.ch, !.starter = TRUE])
          ELSE Respond([NoResp EXCEPT !.endpoint = "starter", !.status = 500])
    /\ reqs' = reqs (-) One(r)
    /\ UNCHANGED <<sessions, lastActivity, charactersWithStarters, tracked>>

\* variant: the character is marked as shown whether or not generation
\* succeeded
StarterGenerated_MarksAlways(r) ==
    /\ BagIn(r, reqs) /\ r.kind = "starter" /\ r.pc = "generating"
    /\ charactersWithStarters' = markStarterShown(r.ch)
    /\ \E ok \in BOOLEAN :
          IF ok
          THEN Respond([NoResp EXCEPT !.endpoint = "starter", !.status = 200,
                           !.ch = r.ch, !.starter = TRUE])
          ELSE Respond([NoResp EXCEPT !.endpoint = "starter", !.status = 500])
    /\ reqs' = reqs (-) One(r)
    /\ UNCHANGED <<sessions, lastActivity, tracked>>

\* processMessage returned: the text is cleaned, the character is marked as
\* shown and the starter is returned; or it threw: 500
StarterGenerated(r) ==
    /\ BagIn(r, reqs) /\ r.kind = "starter" /\ r.pc = "generating"
    /\ \E ok \in BOOLEAN :
          IF ok
          THEN /\ charactersWithStarters' = markStarterShown(r.ch)
               /\ Respond([NoResp EXCEPT !.endpoint = "starter",
                              !.status = 200, !.ch = r.ch,
                              !.starter = TRUE])
          ELSE /\ Respond([NoResp EXCEPT !.endpoint = "starter",
                              !.status = 500])
               /\ UNCHANGED charactersWithStarters
    /\ reqs' = reqs (-) One(r)
    /\ UNCHANGED <<sessions, lastActivity, tracked>>

\* ------------------------------------ DELETE /conversations/delete-all
\* variant: the starter records survive
DeleteAllRequest_KeepsStarters ==
    /\ sessions' = [s \in SessionIds |-> Absent]
    /\ lastActivity' = {}
    /\ Respond([NoResp EXCEPT !.endpoint = "deleteAll", !.status = 200,
                   !.count = Cardinality({s \in SessionIds :
                                             sessions[s].present})])
    /\ UNCHANGED <<charactersWithStarters, tracked, reqs>>

\* sessions, lastActivity and charactersWithStarters are cleared; the
\* answer counts the sessions there were
DeleteAllRequest ==
    /\ sessions' = [s \in SessionIds |-> Absent]
    /\ lastActivity' = {}
    /\ charactersWithStarters' = {}
    /\ Respond([NoResp EXCEPT !.endpoint = "deleteAll", !.status = 200,
                   !.count = Cardinality({s \in SessionIds :
                                             sessions[s].present})])
    /\ UNCHANGED <<tracked, reqs>>

\* ------------- DELETE /conversations/delete-character/:characterName
\* variant: the starter record is cleared only when a session was removed
DeleteCharacterRequest_KeepsStarter ==
    /\ \E characterName \in Characters :
          LET matching == {s \in SessionIds :
                             /\ sessions[s].present
                             /\ sessions[s].character = characterName} IN
          /\ sessions' = [s \in SessionIds |->
                            IF s \in matching THEN Absent ELSE sessions[s]]
          /\ lastActivity' = lastActivity \ matching
          /\ charactersWithStarters' =
                 IF matching = {} THEN charactersWithStarters
                 ELSE charactersWithStarters \ {characterName}
          /\ Respond([NoResp EXCEPT !.endpoint = "deleteCharacter",
                         !.status = 200, !.ch = characterName,
                         !.count = Cardinality(matching)])
    /\ UNCHANGED <<tracked, reqs>>

DeleteCharacterRequest ==
    /\ \E characterName \in Characters :
          LET matching == {s \in SessionIds :
                             /\ sessions[s].present
                             /\ sessions[s].character = characterName} IN
          /\ sessions' = [s \in SessionIds |->
                            IF s \in matching THEN Absent ELSE sessions[s]]
          /\ lastActivity' = lastActivity \ matching
          /\ charactersWithStarters' =
                 charactersWithStarters \ {characterName}
          /\ Respond([NoResp EXCEPT !.endpoint = "deleteCharacter",
                         !.status = 200, !.ch = characterName,
                         !.count = Cardinality(matching)])
    /\ UNCHANGED <<tracked, reqs>>

\* ========================================== the profile controller
\* a profile name that no stored profile has
UnknownProfile == "Ghost"
\* the names setActiveProfile is called with: a stored profile other than
\* the first active one, and one that is not stored
NewProfiles == {"Kairos", UnknownProfile}

\* a ProfileController call that is waiting for the profile storage
ProfileCall(op, name, pc, list) ==
    [op |-> op, name |-> name, pc |-> pc, list |-> list]

CallsInFlight(op) ==
    BagCardinality([c \in {q \in BagToSet(profileCalls) : q.op = op}
                       |-> CopiesIn(c, profileCalls)])

Return(r) == profileResult' = [r EXCEPT !.seq = 1 - profileResult.seq]

Leaves(c) == profileCalls' = profileCalls (-) One(c)
MovesTo(c, pc) ==
    profileCalls' = (profileCalls (-) One(c)) (+) One([c EXCEPT !.pc = pc])

\* setActiveProfile: sanitizeProfileName, then storage.profileExists
SetActiveProfileCall(name) ==
    /\ CallsInFlight("setActive") < MaxSlots
    /\ profileCalls' =
          profileCalls (+) One(ProfileCall("setActive", name, "checking", {}))
    /\ UNCHANGED <<activeProfile, storedProfiles, cachedProfileList,
                   profileResult, serverVars>>

\* profileExists resolved: throw when the profile is not stored, otherwise
\* storage.setActiveProfile
SetActiveProfileChecked(c) ==
    /\ BagIn(c, profileCalls) /\ c.op = "setActive" /\ c.pc = "checking"
    /\ IF c.name \in storedProfiles
       THEN MovesTo(c, "saving") /\ UNCHANGED profileResult
       ELSE /\ Leaves(c)
            /\ Return([NoResult EXCEPT !.op = "setActive", !.ok = FALSE,
                                        !.name = c.name])
    /\ UNCHANGED <<activeProfile, storedProfiles, cachedProfileList,
                   serverVars>>

\* variant: the sessions that exist are rebound to the new active profile
SetActiveProfileSaved_RebindsSessions(c) ==
    /\ BagIn(c, profileCalls) /\ c.op = "setActive" /\ c.pc = "saving"
    /\ Leaves(c)
    /\ \E ok \in BOOLEAN :
          IF ok
          THEN /\ activeProfile' = c.name
               /\ sessions' = [s \in SessionIds |->
                                 IF sessions[s].present
                                 THEN [sessions[s] EXCEPT !.character = c.name]
                                 ELSE sessions[s]]
               /\ Return([NoResult EXCEPT !.op = "setActive",
                                          !.name = c.name])
          ELSE /\ UNCHANGED <<activeProfile, sessions>>
               /\ Return([NoResult EXCEPT !.op = "setActive", !.ok = FALSE,
                                          !.name = c.name])
    /\ UNCHANGED <<storedProfiles, cachedProfileList, lastActivity,
                   charactersWithStarters, tracked, reqs, resp>>

\* storage.setActiveProfile resolved (the active profile is stored) or
\* threw; the user-settings cache is invalidated and the name returned;
\* the sessions are not touched
SetActiveProfileSaved(c) ==
    /\ BagIn(c, profileCalls) /\ c.op = "setActive" /\ c.pc = "saving"
    /\ Leaves(c)
    /\ \E ok \in BOOLEAN :
          IF ok
          THEN /\ activeProfile' = c.name
               /\ Return([NoResult EXCEPT !.op = "setActive",
                                          !.name = c.name])
          ELSE /\ UNCHANGED activeProfile
               /\ Return([NoResult EXCEPT !.op = "setActive", !.ok = FALSE,
                                          !.name = c.name])
    /\ UNCHANGED <<storedProfiles, cachedProfileList, serverVars>>

\* ------------------------------------------------ the profile list
WritesInFlight == CallsInFlight("save") + CallsInFlight("delete")

\* listProfiles: the cached list is returned when there is one; otherwise
\* storage.listProfiles is called
ListProfilesCall ==
    /\ IF cachedProfileList.valid
       THEN /\ Return([NoResult EXCEPT !.op = "list", !.cached = TRUE,
                                        !.list = cachedProfileList.list])
            /\ UNCHANGED profileCalls
       ELSE /\ CallsInFlight("list") < MaxSlots
            /\ profileCalls' =
                  profileCalls (+) One(ProfileCall("list", NoChar, "calling", {}))
            /\ UNCHANGED profileResult
    /\ UNCHANGED <<activeProfile, storedProfiles, cachedProfileList,
                   serverVars>>

\* the storage reads the stored profiles, or fails
StorageListsProfiles(c) ==
    /\ BagIn(c, profileCalls) /\ c.op = "list" /\ c.pc = "calling"
    /\ \E ok \in BOOLEAN :
          IF ok
          THEN /\ profileCalls' = (profileCalls (-) One(c)) (+)
                     One([c EXCEPT !.pc = "read", !.list = storedProfiles])
               /\ UNCHANGED profileResult
          ELSE /\ Leaves(c)
               /\ Return([NoResult EXCEPT !.op = "list", !.ok = FALSE])
    /\ UNCHANGED <<activeProfile, storedProfiles, cachedProfileList,
                   serverVars>>

\* listProfiles goes on after the await: the list that was read is put
\* into the cache and returned
ListProfilesReturns(c) ==
    /\ BagIn(c, profileCalls) /\ c.op = "list" /\ c.pc = "read"
    /\ Leaves(c)
    /\ cachedProfileList' = Cached(c.list)
    /\ Return([NoResult EXCEPT !.op = "list", !.list = c.list])
    /\ UNCHANGED <<activeProfile, storedProfiles, serverVars>>

\* saveProfile / deleteProfile: sanitizeProfileName, which may throw, then
\* the call of the storage
WriteProfileCall(op, name) ==
    /\ CallsInFlight(op) < MaxSlots
    /\ \E valid \in BOOLEAN :
          IF valid
          THEN /\ profileCalls' =
                     profileCalls (+) One(ProfileCall(op, name, "calling", {}))
               /\ UNCHANGED profileResult
          ELSE /\ Return([NoResult EXCEPT !.op = op, !.ok = FALSE,
                                           !.name = name])
               /\ UNCHANGED profileCalls
    /\ UNCHANGED <<activeProfile, storedProfiles, cachedProfileList,
                   serverVars>>

SaveProfileCall(name) == WriteProfileCall("save", name)

DeleteProfileCall(name) == WriteProfileCall("delete", name)

\* the storage writes the profile, or removes it, or fails
StorageWritesProfile(c) ==
    /\ BagIn(c, profileCalls) /\ c.op \in {"save", "delete"}
    /\ c.pc = "calling"
    /\ \E ok \in BOOLEAN :
          IF ok
          THEN /\ MovesTo(c, "written")
               /\ storedProfiles' = IF c.op = "save"
                                     THEN storedProfiles \cup {c.name}
                                     ELSE storedProfiles \ {c.name}
               /\ UNCHANGED profileResult
          ELSE /\ Leaves(c)
               /\ Return([NoResult EXCEPT !.op = c.op, !.ok = FALSE,
                                           !.name = c.name])
               /\ UNCHANGED storedProfiles
    /\ UNCHANGED <<activeProfile, cachedProfileList, serverVars>>

\* saveProfile / deleteProfile go on after the await: the cached list is
\* invalidated
WriteProfileReturns(c) ==
    /\ BagIn(c, profileCalls) /\ c.op \in {"save", "delete"}
    /\ c.pc = "written"
    /\ Leaves(c)
    /\ cachedProfileList' = NoList
    /\ Return([NoResult EXCEPT !.op = c.op, !.name = c.name])
    /\ UNCHANGED <<activeProfile, storedProfiles, serverVars>>

\* ============================================ the streaming codec
\* The body is a sequence of atoms: NL is a line break, "event:" and
\* "data:" are the line prefixes, the other atoms are the text after them.
NL == "\n"
ValidJson == "{}"
Atoms == {NL, "event:", "data:", "connected", "message", "done", "error",
          ValidJson, "bad"}

Frame(type, data) == <<"event:", type, NL, "data:", data, NL, NL>>

\* what a body is made of: the frames the streaming endpoint writes, a
\* message frame whose data does not parse, a block with a data line only,
\* a stray line break, and an event line that a single line break ends
Pieces ==
    {Frame("connected", ValidJson), Frame("message", ValidJson),
     Frame("done", ValidJson), Frame("error", ValidJson),
     Frame("message", "bad"),
     <<"data:", ValidJson, NL, NL>>, <<NL>>, <<"event:", "done", NL>>}

RECURSIVE Bodies(_)
Bodies(n) ==
    IF n = 0 THEN {<<>>}
    ELSE Bodies(n - 1) \cup {b \o p : b \in Bodies(n - 1), p \in Pieces}

\* String.prototype.split(sep) for a separator of one or two line breaks:
\* cut at the leftmost occurrences, left to right
RECURSIVE split(_, _)
split(s, sep) ==
    LET n == Len(sep)
        hits == {i \in 1..(Len(s) - n + 1) : SubSeq(s, i, i + n - 1) = sep}
    IN IF hits = {} THEN <<s>>
       ELSE LET i == CHOOSE i \in hits : \A j \in hits : i <= j
            IN <<SubSeq(s, 1, i - 1)>> \o split(SubSeq(s, i + n, Len(s)), sep)

\* eventBlock.trim() is the empty string
Blank(block) == \A k \in 1..Len(block) : block[k] = NL

\* the loop over eventLines: the last event: line and the last data: line
\* give eventType and eventData; eventType defaults to 'message'
RECURSIVE ParseLines(_, _)
ParseLines(eventLines, acc) ==
    IF eventLines = <<>> THEN acc
    ELSE LET line == Head(eventLines) IN
         ParseLines(Tail(eventLines),
            IF line /= <<>> /\ line[1] = "event:"
            THEN [acc EXCEPT !.eventType = Tail(line)]
            ELSE IF line /= <<>> /\ line[1] = "data:"
            THEN [acc EXCEPT !.eventData = Tail(line)]
            ELSE acc)

\* the state of one processStreamingResponse call
CodecStart == [buffer |-> <<>>, messageData |-> FALSE, log |-> <<>>]

Event(name) == [kind |-> "event", name |-> name]
Call(name) == [kind |-> "call", name |-> name]

\* the done branch that calls onDone whether or not a message was seen
CallsOnDone_Always(c) == TRUE

\* "if (messageData && onDone)" in the done branch
CallsOnDone(c) == c.messageData

\* variant: a block whose data does not parse also discards the message
\* seen so far
Dispatch_BadForgets(c, eventBlock) ==
    IF Blank(eventBlock) THEN c
    ELSE LET parsed == ParseLines(split(eventBlock, <<NL>>),
                          [eventType |-> <<"message">>, eventData |-> <<>>])
         IN IF parsed.eventData /= <<ValidJson>>
            THEN [c EXCEPT !.messageData = FALSE]
            ELSE IF parsed.eventType = <<"connected">>
            THEN [c EXCEPT !.log = Append(@, Event("connected"))]
            ELSE IF parsed.eventType = <<"message">>
            THEN [c EXCEPT !.messageData = TRUE,
                           !.log = @ \o <<Event("message"),
                                          Call("onMessage")>>]
            ELSE IF parsed.eventType = <<"done">>
            THEN IF CallsOnDone(c)
                 THEN [c EXCEPT !.log = @ \o <<Event("done"), Call("onDone")>>]
                 ELSE [c EXCEPT !.log = Append(@, Event("done"))]
            ELSE IF parsed.eventType = <<"error">>
            THEN [c EXCEPT !.log = Append(@, Event("error"))]
            ELSE c

\* the body of the loop over the event blocks, for one block
Dispatch(c, eventBlock) ==
    IF Blank(eventBlock) THEN c
    ELSE LET parsed == ParseLines(split(eventBlock, <<NL>>),
                          [eventType |-> <<"message">>, eventData |-> <<>>])
         IN IF parsed.eventData /= <<ValidJson>>
            THEN c      \* JSON.parse throws, catch (parseError) logs it
            ELSE IF parsed.eventType = <<"connected">>
            THEN [c EXCEPT !.log = Append(@, Event("connected"))]
            ELSE IF parsed.eventType = <<"message">>
            THEN [c EXCEPT !.messageData = TRUE,
                           !.log = @ \o <<Event("message"),
                                          Call("onMessage")>>]
            ELSE IF parsed.eventType = <<"done">>
            THEN IF CallsOnDone(c)
                 THEN [c EXCEPT !.log = @ \o <<Event("done"), Call("onDone")>>]
                 ELSE [c EXCEPT !.log = Append(@, Event("done"))]
            ELSE IF parsed.eventType = <<"error">>
            THEN \* the Error thrown here is caught by catch (parseError)
                 [c EXCEPT !.log = Append(@, Event("error"))]
            ELSE c

RECURSIVE DispatchAll(_, _)
DispatchAll(c, blocks) ==
    IF blocks = <<>> THEN c
    ELSE DispatchAll(Dispatch(c, Head(blocks)), Tail(blocks))

\* "buffer = lines.pop() || ''" that drops the unterminated block
Carry_Dropped(lines) == <<>>

\* "buffer = lines.pop() || ''"
Carry(lines) == lines[Len(lines)]

\* one turn of the while loop with a chunk that reader.read() returned
ProcessRead(c, value) ==
    LET lines == split(c.buffer \o value, <<NL, NL>>)
        blocks == SubSeq(lines, 1, Len(lines) - 1)
    IN DispatchAll([c EXCEPT !.buffer = Carry(lines)], blocks)

CodecState == [buffer |-> buffer, messageData |-> messageData, log |-> log]

InitCodecIdle ==
    /\ stream = <<>> /\ wire = <<>>
    /\ buffer = <<>> /\ messageData = FALSE
    /\ codecPc = "idle" /\ log = <<>>

\* processStreamingResponse is called with a response body
InitReading ==
    /\ stream \in Bodies(MaxPieces) /\ wire = stream
    /\ buffer = CodecStart.buffer /\ messageData = CodecStart.messageData
    /\ log = CodecStart.log
    /\ codecPc = "reading"

\* reader.read() resolves with the next n atoms of the body
Read ==
    /\ codecPc = "reading" /\ wire /= <<>>
    /\ \E n \in 1..Len(wire) :
          LET c == ProcessRead(CodecState, SubSeq(wire, 1, n)) IN
          /\ wire' = SubSeq(wire, n + 1, Len(wire))
          /\ buffer' = c.buffer
          /\ messageData' = c.messageData
          /\ log' = c.log
    /\ UNCHANGED <<stream, codecPc>>

\* reader.read() resolves with done: the loop breaks
ReadDone ==
    /\ codecPc = "reading" /\ wire = <<>>
    /\ codecPc' = "ended"
    /\ UNCHANGED <<stream, wire, buffer, messageData, log>>

NextCodec ==
    \/ Read /\ UNCHANGED offCodec
    \/ ReadDone /\ UNCHANGED offCodec

\* --------------------------- GET /chat/starter: cleanup of the text
\* a text is a sequence of pieces: one blank, a run of nine blanks, a
\* closing bracket, a full stop, the leaked markers and two plain phrases
Blank1 == " "
Blank9 == "         "
SystemMarker == "[System:"
RequirementsMarker == "REQUIREMENTS"
TextPieces == {Blank1, Blank9, "]", ".", SystemMarker, RequirementsMarker,
               "Hi", "Good evening"}

\* String.prototype.length of a piece
PieceLength(a) ==
    CASE a = Blank1 -> 1
      [] a = Blank9 -> 9
      [] a = "]" -> 1
      [] a = "." -> 1
      [] a = SystemMarker -> 8
      [] a = RequirementsMarker -> 12
      [] a = "Hi" -> 2
      [] a = "Good evening" -> 12
      [] OTHER -> 38

RECURSIVE length(_)
length(t) == IF t = <<>> THEN 0 ELSE PieceLength(Head(t)) + length(Tail(t))

IsSpace(a) == a \in {Blank1, Blank9}
IsPunctuation(a) == a = "."

RECURSIVE TextsUpTo(_)
TextsUpTo(n) ==
    IF n = 0 THEN {<<>>}
    ELSE LET shorter == TextsUpTo(n - 1) IN
         shorter \cup {Append(t, a) : t \in shorter, a \in TextPieces}

\* String.prototype.trim
RECURSIVE trimStart(_)
trimStart(t) ==
    IF t /= <<>> /\ IsSpace(Head(t)) THEN trimStart(Tail(t)) ELSE t

RECURSIVE trimEnd(_)
trimEnd(t) ==
    IF t /= <<>> /\ IsSpace(t[Len(t)])
    THEN trimEnd(SubSeq(t, 1, Len(t) - 1)) ELSE t

trim(t) == trimEnd(trimStart(t))

includes(t, a) == \E i \in 1..Len(t) : t[i] = a

\* String.prototype.indexOf, counted in pieces from 1; 0 when absent
indexOf(t, a) ==
    IF includes(t, a)
    THEN CHOOSE i \in 1..Len(t) :
            t[i] = a /\ \A j \in 1..(i - 1) : t[j] /= a
    ELSE 0

endsWith(t, a) == t /= <<>> /\ t[Len(t)] = a

\* `Hello! I'm ${activeCharacterName}. How are you doing today?`
Fallback(name) ==
    IF name = "Echo" THEN <<"Hello! I'm Echo. How are you doing today?">>
    ELSE <<"Hello! I'm Kairos. How are you doing today?">>

\* "Remove the entire system prompt if it leaked into the response"
CutAtMarker(t) ==
    IF includes(t, SystemMarker)
    THEN trim(SubSeq(t, 1, indexOf(t, SystemMarker) - 1))
    ELSE t

\* "!cleanedResponse || cleanedResponse.includes('REQUIREMENTS') ||
\*  cleanedResponse.length < 10"
NeedsFallback(t) ==
    t = <<>> \/ includes(t, RequirementsMarker) \/ length(t) < 10

OrFallback(t, name) == IF NeedsFallback(t) THEN Fallback(name) ELSE t

\* "if (cleanedResponse.endsWith(']')) cleanedResponse =
\*  cleanedResponse.slice(0, -1).trim()"
DropClosingBracket(t) ==
    IF endsWith(t, "]") THEN trim(SubSeq(t, 1, Len(t) - 1)) ELSE t

\* the suffix of t from p matches /\s*\]\s*([.!?]*)$/
MatchesAt(t, p) ==
    \E b \in p..Len(t) :
       /\ t[b] = "]"
       /\ \A j \in p..(b - 1) : IsSpace(t[j])
       /\ \A j \in (b + 1)..Len(t) : IsSpace(t[j]) \/ IsPunctuation(t[j])
       /\ \A j \in (b + 1)..Len(t) :
             IsPunctuation(t[j]) =>
                \A k \in j..Len(t) : IsPunctuation(t[k])

\* cleanedResponse.replace(/\s*\]\s*([.!?]*)$/, '$1'): the leftmost
\* match is replaced by its final punctuation
ReplaceTrailingBracket(t) ==
    IF \E p \in 1..Len(t) : MatchesAt(t, p)
    THEN LET p == CHOOSE q \in 1..Len(t) :
                     MatchesAt(t, q) /\ \A r \in 1..(q - 1) : ~MatchesAt(t, r)
         IN  SubSeq(t, 1, p - 1) \o
             SelectSeq(SubSeq(t, p, Len(t)), IsPunctuation)
    ELSE t

\* the text the handler returns as starter
CleanStarter(t, name) ==
    ReplaceTrailingBracket(DropClosingBracket(OrFallback(CutAtMarker(t),
                                                         name)))

InitCleanupIdle ==
    /\ response = <<>> /\ cleanupName = NoChar
    /\ cleanedResponse = <<>> /\ cleanupPc = "idle"

\* processMessage returned some text for the starter of a character
InitGenerated ==
    /\ response \in TextsUpTo(MaxText)
    /\ cleanupName \in Characters
    /\ cleanedResponse = <<>> /\ cleanupPc = "generated"

\* the cleanup up to the fallback
CutAndFallback ==
    /\ cleanupPc = "generated"
    /\ cleanedResponse' = OrFallback(CutAtMarker(response), cleanupName)
    /\ cleanupPc' = "checked"
    /\ UNCHANGED <<response, cleanupName>>

\* the removal of a closing bracket; the text is returned
StripBrackets ==
    /\ cleanupPc = "checked"
    /\ cleanedResponse' =
          ReplaceTrailingBracket(DropClosingBracket(cleanedResponse))
    /\ cleanupPc' = "returned"
    /\ UNCHANGED <<response, cleanupName>>

NextCleanup ==
    \/ CutAndFallback /\ UNCHANGED offCleanup
    \/ StripBrackets /\ UNCHANGED offCleanup

Init == InitClient /\ InitServer /\ InitCodecIdle /\ InitCleanupIdle

\* the router is checked next to one tab that does nothing
InitRouter ==
    /\ Init
    /\ useStreaming /\ selectedCharacter = NoChar

NextServer ==
    \/ CancelRequest /\ UNCHANGED offServer
    \/ DeleteSessionRequest /\ UNCHANGED offServer
    \/ (\E sid \in SessionIds, force \in BOOLEAN :
           StarterBegin(sid, force, MaxSlots)) /\ UNCHANGED offServer
    \/ (\E r \in BagToSet(reqs) : StarterResolved(r)) /\ UNCHANGED offServer
    \/ (\E r \in BagToSet(reqs) : StarterGenerated(r)) /\ UNCHANGED offServer
    \/ DeleteAllRequest /\ UNCHANGED offServer
    \/ DeleteCharacterRequest /\ UNCHANGED offServer

SpecServer == InitRouter /\ [][NextServer]_vars

\* the generate endpoints, blocking and streaming, serving one session while
\* cancel calls arrive
GenerateSessions == {"s1"}

\* a generate request carries a request id or none
GenerateIds == {"r1", NoId}

NextGenerate ==
    \/ (\E sid \in GenerateSessions, rid \in GenerateIds :
           ChatBegin(sid, rid)) /\ UNCHANGED offServer
    \/ (\E r \in BagToSet(reqs) : ChatResolved(r)) /\ UNCHANGED offServer
    \/ (\E r \in BagToSet(reqs) : ChatGenerated(r)) /\ UNCHANGED offServer
    \/ (\E sid \in GenerateSessions, rid \in GenerateIds :
           StreamBegin(sid, rid)) /\ UNCHANGED offServer
    \/ (\E r \in BagToSet(reqs) : StreamResolved(r)) /\ UNCHANGED offServer
    \/ (\E r \in BagToSet(reqs) : StreamGenerated(r)) /\ UNCHANGED offServer
    \/ CancelRequest /\ UNCHANGED offServer

SpecGenerate == InitRouter /\ [][NextGenerate]_vars

\* request tracking: blocking generate requests of every session, which
\* carry a request id, and streaming ones of one session, which carry
\* none, with cancel calls
NextTrack ==
    \/ (\E sid \in SessionIds : ChatBegin(sid, "r1"))
          /\ UNCHANGED offServer
    \/ (\E r \in BagToSet(reqs) : ChatResolved(r)) /\ UNCHANGED offServer
    \/ (\E r \in BagToSet(reqs) : ChatGenerated(r)) /\ UNCHANGED offServer
    \/ (\E sid \in GenerateSessions : StreamBegin(sid, NoId))
          /\ UNCHANGED offServer
    \/ (\E r \in BagToSet(reqs) : StreamResolved(r)) /\ UNCHANGED offServer
    \/ (\E r \in BagToSet(reqs) : StreamGenerated(r)) /\ UNCHANGED offServer
    \/ CancelRequest /\ UNCHANGED offServer

SpecTrack == InitRouter /\ [][NextTrack]_vars

\* the starter gate next to the generate endpoints: generate requests of
\* one session, sent without a request id, and its starter fetches, one at
\* a time and none of them forced
NextGate ==
    \/ (\E sid \in GenerateSessions : ChatBegin(sid, NoId))
          /\ UNCHANGED offServer
    \/ (\E r \in BagToSet(reqs) : ChatResolved(r)) /\ UNCHANGED offServer
    \/ (\E r \in BagToSet(reqs) : ChatGenerated(r)) /\ UNCHANGED offServer
    \/ (\E sid \in GenerateSessions : StreamBegin(sid, NoId))
          /\ UNCHANGED offServer
    \/ (\E r \in BagToSet(reqs) : StreamResolved(r)) /\ UNCHANGED offServer
    \/ (\E r \in BagToSet(reqs) : StreamGenerated(r)) /\ UNCHANGED offServer
    \/ (\E sid \in GenerateSessions : StarterBegin(sid, FALSE, 1))
          /\ UNCHANGED offServer
    \/ (\E r \in BagToSet(reqs) : StarterResolved(r)) /\ UNCHANGED offServer
    \/ (\E r \in BagToSet(reqs) : StarterGenerated(r)) /\ UNCHANGED offServer

SpecGate == InitRouter /\ [][NextGate]_vars

\* the active profile changes while blocking generate requests, sent
\* without a request id, create and rebind sessions
NextActiveProfile ==
    \/ (\E sid \in SessionIds : ChatBegin(sid, NoId)) /\ UNCHANGED offServer
    \/ (\E r \in BagToSet(reqs) : ChatResolved(r)) /\ UNCHANGED offServer
    \/ (\E r \in BagToSet(reqs) : ChatGenerated(r)) /\ UNCHANGED offServer
    \/ (\E name \in NewProfiles : SetActiveProfileCall(name))
          /\ UNCHANGED offProfile
    \/ (\E c \in BagToSet(profileCalls) : SetActiveProfileChecked(c))
          /\ UNCHANGED offProfile
    \/ (\E c \in BagToSet(profileCalls) : SetActiveProfileSaved(c))
          /\ UNCHANGED offProfile

SpecActiveProfile == InitRouter /\ [][NextActiveProfile]_vars

\* the profile list: listProfiles, saveProfile and deleteProfile calls that
\* overlap
NextProfileCache ==
    \/ ListProfilesCall /\ UNCHANGED offProfile
    \/ (\E c \in BagToSet(profileCalls) : StorageListsProfiles(c))
          /\ UNCHANGED offProfile
    \/ (\E c \in BagToSet(profileCalls) : ListProfilesReturns(c))
          /\ UNCHANGED offProfile
    \/ (\E name \in NewProfiles : SaveProfileCall(name))
          /\ UNCHANGED offProfile
    \/ (\E name \in NewProfiles : DeleteProfileCall(name))
          /\ UNCHANGED offProfile
    \/ (\E c \in BagToSet(profileCalls) : StorageWritesProfile(c))
          /\ UNCHANGED offProfile
    \/ (\E c \in BagToSet(profileCalls) : WriteProfileReturns(c))
          /\ UNCHANGED offProfile

SpecProfileCache == InitRouter /\ [][NextProfileCache]_vars

\* session resolution: generate and starter requests of one session, sent
\* without a request id, interleave
NextResolve ==
    \/ (\E sid \in GenerateSessions : ChatBegin(sid, NoId))
          /\ UNCHANGED offServer
    \/ (\E r \in BagToSet(reqs) : ChatResolved(r)) /\ UNCHANGED offServer
    \/ (\E r \in BagToSet(reqs) : ChatGenerated(r)) /\ UNCHANGED offServer
    \/ (\E sid \in GenerateSessions, force \in BOOLEAN :
           StarterBegin(sid, force, MaxSlots)) /\ UNCHANGED offServer
    \/ (\E r \in BagToSet(reqs) : StarterResolved(r)) /\ UNCHANGED offServer
    \/ (\E r \in BagToSet(reqs) : StarterGenerated(r)) /\ UNCHANGED offServer

SpecResolve == InitRouter /\ [][NextResolve]_vars

\* overlapping starter fetches, none of them forced, of all sessions, with
\* the bulk deletes that reset the starter records
NextOverlap ==
    \/ (\E sid \in SessionIds : StarterBegin(sid, FALSE, MaxOverlap))
          /\ UNCHANGED offServer
    \/ (\E r \in BagToSet(reqs) : StarterResolved(r)) /\ UNCHANGED offServer
    \/ (\E r \in BagToSet(reqs) : StarterGenerated(r)) /\ UNCHANGED offServer
    \/ DeleteAllRequest /\ UNCHANGED offServer
    \/ DeleteCharacterRequest /\ UNCHANGED offServer

SpecOverlap == InitRouter /\ [][NextOverlap]_vars

\* the codec is checked next to a tab and a router that do nothing
InitCodec ==
    /\ InitClient /\ useStreaming /\ selectedCharacter = NoChar
    /\ InitServer /\ InitReading /\ InitCleanupIdle

SpecCodec == InitCodec /\ [][NextCodec]_vars

InitStarterText ==
    /\ InitClient /\ useStreaming /\ selectedCharacter = NoChar
    /\ InitServer /\ InitCodecIdle /\ InitGenerated

SpecStarterText == InitStarterText /\ [][NextCleanup]_vars

Next ==
    \/ SendMessage /\ UNCHANGED offClient
    \/ SendMessageCancel /\ UNCHANGED offClient
    \/ RegenerateResponse /\ UNCHANGED offClient
    \/ CheckConnection /\ UNCHANGED offClient
    \/ (\E i \in Ops : CancelReturns(i)) /\ UNCHANGED offClient
    \/ (\E i \in Ops : FetchHttpError(i)) /\ UNCHANGED offClient
    \/ (\E i \in Ops : NetworkError(i)) /\ UNCHANGED offClient
    \/ (\E i \in Ops : AbortDelivered(i)) /\ UNCHANGED offClient
    \/ (\E i \in Ops : StreamOpens(i)) /\ UNCHANGED offClient
    \/ (\E i \in Ops : ReadFrame(i)) /\ UNCHANGED offClient
    \/ (\E i \in Ops : StreamEnds(i)) /\ UNCHANGED offClient
    \/ (\E i \in Ops : BlockingResponse(i)) /\ UNCHANGED offClient
    \/ (\E i \in Ops : TimerFires(i)) /\ UNCHANGED offClient

Spec == Init /\ [][Next]_vars

\* a response of the server, or the end of one, reaches an invocation that
\* waits for it
Delivery ==
    \E i \in Ops :
       \/ CancelReturns(i) \/ FetchHttpError(i) \/ NetworkError(i)
       \/ AbortDelivered(i) \/ StreamOpens(i) \/ ReadFrame(i)
       \/ StreamEnds(i) \/ BlockingResponse(i) \/ TimerFires(i)

\* the coordinator where every response the server owes eventually ends
\* and every timer fires
SpecLive == Init /\ [][Next]_vars /\ WF_vars(Delivery /\ UNCHANGED offClient)

\* the coordinator with a session id and a character that change under way
NextSession ==
    \/ nOps < MaxIdOps /\ SendMessage /\ UNCHANGED offClient
    \/ nOps < MaxIdOps /\ SendMessageCancel /\ UNCHANGED offClient
    \/ nOps < MaxIdOps /\ RegenerateResponse /\ UNCHANGED offClient
    \/ CheckConnection /\ UNCHANGED offClient
    \/ SetSessionCharacter /\ UNCHANGED offClient
    \/ ClearSession /\ UNCHANGED offClient
    \/ (\E i \in Ops : CancelReturns(i)) /\ UNCHANGED offClient
    \/ (\E i \in Ops : FetchHttpError(i)) /\ UNCHANGED offClient
    \/ (\E i \in Ops : NetworkError(i)) /\ UNCHANGED offClient
    \/ (\E i \in Ops : AbortDelivered(i)) /\ UNCHANGED offClient
    \/ (\E i \in Ops : StreamOpens(i)) /\ UNCHANGED offClient
    \/ (\E i \in Ops : ReadFrame(i)) /\ UNCHANGED offClient
    \/ (\E i \in Ops : StreamEnds(i)) /\ UNCHANGED offClient
    \/ (\E i \in Ops : BlockingResponse(i)) /\ UNCHANGED offClient
    \/ (\E i \in Ops : TimerFires(i)) /\ UNCHANGED offClient

\* a fresh tab: no character is stored for it until loadProfiles sets one
InitSession == Init /\ selectedCharacter = NoChar

SpecSession == InitSession /\ [][NextSession]_vars

\* the tab over its lifetime: the page may be loaded again
NextTab ==
    \/ nOps < MaxIdOps /\ SendMessage /\ UNCHANGED offClient
    \/ nOps < MaxIdOps /\ SendMessageCancel /\ UNCHANGED offClient
    \/ CheckConnection /\ UNCHANGED offClient
    \/ SetSessionCharacter /\ UNCHANGED offClient
    \/ ClearSession /\ UNCHANGED offClient
    \/ PageReload /\ UNCHANGED offClient
    \/ (\E i \in Ops : CancelReturns(i)) /\ UNCHANGED offClient
    \/ (\E i \in Ops : FetchHttpError(i)) /\ UNCHANGED offClient
    \/ (\E i \in Ops : NetworkError(i)) /\ UNCHANGED offClient
    \/ (\E i \in Ops : AbortDelivered(i)) /\ UNCHANGED offClient
    \/ (\E i \in Ops : StreamOpens(i)) /\ UNCHANGED offClient
    \/ (\E i \in Ops : ReadFrame(i)) /\ UNCHANGED offClient
    \/ (\E i \in Ops : StreamEnds(i)) /\ UNCHANGED offClient

InitTab == InitSession /\ useStreaming

SpecTab == InitTab /\ [][NextTab]_vars

\* ------------------------------------------------------------ claims
IssuedIds == {issued[k] : k \in 1..Len(issued)}
SendOps == {i \in Ops : ops[i].kind = "send" /\ ops[i].rid /= NoReq}

C2_StalenessMonotone ==
    [][\A r \in rendered' \ rendered :
          /\ r.rid = latestRequestId
          /\ r.rid = issued[Len(issued)]]_vars

\* blocking mode: a response was dropped as stale and a later request's
\* response was rendered
C2_Witness ==
    /\ ~useStreaming
    /\ \E i, j \in SendOps :
          /\ PosOf(ops[i].rid) < PosOf(ops[j].rid)
          /\ ops[i].result = "staleAfterDelay"
          /\ ops[j].result = "rendered"

\* C3: the latest pointer only moves forward. Every step that changes
\* latestRequestId is a generateRequestId (it appends the new id to the ids
\* issued), the new id's counter is greater than every counter issued
\* before, and the new id was never held before.
C3_LatestOnlyAdvances ==
    [][latestRequestId' /= latestRequestId =>
          /\ issued' = Append(issued, latestRequestId')
          /\ requestCounter' = requestCounter + 1
          /\ \A id \in IssuedIds : Counter(latestRequestId') > Counter(id)
          /\ latestRequestId' \notin IssuedIds \cup {NoReq}]_vars

\* the pointer advanced twice, across a clearSession and a change of
\* character
C3_Witness ==
    /\ Len(issued) >= 2
    /\ issued[1][1] /= issued[2][1]
    /\ \E k \in 1..Len(issued) : issued[k][2] /= issued[1][2]
    /\ latestRequestId = issued[Len(issued)]

\* C4: at most one generation network operation is outstanding per tab.
C4_AtMostOneOutstanding ==
    Cardinality({i \in Ops : Outstanding(i)}) <= 1

\* C14 (as stated): a send whose stream delivered the error frame ends as
\* a failed send: the error notice is shown.
C14_ErrorFrameShown ==
    [][\A i \in Ops :
          (/\ ops[i].kind = "send" /\ ops[i].pc = "reading"
           /\ ops[i].terminal /\ ~ops[i].messageData /\ ~ops[i].aborted
           /\ ops'[i].pc = "done")
             => ops'[i].result = "errorShown"]_vars

\* C16: a send whose fetch or stream read ends because its abort handle
\* was triggered by cancelPendingRequest ends as cancelled: no error
\* notice is shown and no message is added or rendered in that step.
C16_AbortNotSurfaced ==
    [][\A i \in Ops :
          (/\ ops[i].kind = "send" /\ ops[i].aborted
           /\ ops[i].pc \in {"fetchWait", "reading"}
           /\ ops'[i].pc = "done")
             => /\ ops'[i].result = "cancelled"
                /\ chatMessages' = chatMessages
                /\ rendered' = rendered]_vars

\* a streaming send ended as cancelled and no bot message of its request
\* was rendered
C16_Witness ==
    \E i \in Ops :
       /\ ops[i].kind = "send" /\ ops[i].result = "cancelled"
       /\ useStreaming
       /\ \A rec \in rendered : rec.rid /= ops[i].rid

\* C20 (as stated): no send ever waits for the answer to the cancel
\* notification before it issues its generation request.
C20_CancelNeverBlocks ==
    \A i \in Ops : ops[i].pc /= "cancelWait"

\* C24: cancelPendingRequest called with nothing pending aborts nothing,
\* sends no notification and leaves the pending fields as they were;
\* called with a pending request it aborts that request's network
\* operation (if the request still has one) and sends one notification
\* carrying that request's id; when
\* it returns, after the notification was answered or failed, both pending
\* fields are null, so that a call repeated at once finds nothing pending.
C24_CancelPending ==
    [][/\ \A i \in Ops :
             /\ (ops[i].pc = "idle" /\ ops'[i].pc = "fetchWait"
                                   /\ ops'[i].kind = "send") =>
                   /\ cancelsSent' = cancelsSent
                   /\ \A j \in Ops : ops'[j].aborted = ops[j].aborted
                   /\ cancelReturn' =
                         <<pendingAbortController, pendingRequestId>>
             /\ (ops[i].pc = "idle" /\ ops'[i].pc = "cancelWait") =>
                   /\ pendingAbortController \in Ops
                   /\ ops[pendingAbortController].rid = pendingRequestId
                   /\ \/ ops'[pendingAbortController].aborted
                      \/ ops[pendingAbortController].pc = "done"
                   /\ cancelsSent' = Append(cancelsSent, pendingRequestId)
                   /\ \A j \in Ops \ {pendingAbortController} :
                         ops'[j].aborted = ops[j].aborted
             /\ (ops[i].pc = "cancelWait" /\ ops'[i].pc /= "cancelWait") =>
                   /\ cancelReturn' = <<0, NoReq>>
                   /\ cancelsSent' = cancelsSent
       /\ ~(cancelReturn'[1] /= 0 /\ cancelReturn'[2] /= NoReq)]_vars

\* a call with a pending request has returned: its notification was sent,
\* the request it cancelled is aborted and the send that called it goes on
C24_Witness ==
    /\ Len(cancelsSent) = 1
    /\ cancelReturn = <<0, NoReq>>
    /\ \E i, j \in Ops :
          /\ ops[j].aborted /\ ops[j].rid = cancelsSent[1]
          /\ ops[i].kind = "send" /\ ops[i].pc = "fetchWait"
          /\ pendingAbortController = i

\* C25 (as stated): when a send's request reaches a terminal status the
\* pending fields no longer hold its abort handle and id, and they are
\* left alone when they hold those of another request.
C25_LinkDiscarded ==
    [][\A i \in Ops :
          (ops[i].kind = "send" /\ ops[i].pc /= "done"
                               /\ ops'[i].pc = "done") =>
             /\ pendingRequestId' /= ops[i].rid
             /\ pendingAbortController' /= i
             /\ pendingRequestId /= ops[i].rid =>
                   UNCHANGED <<pendingAbortController, pendingRequestId>>]_vars

\* a send that waited for the answer to its cancel notification goes on
Continues(i) == ops[i].pc = "cancelWait" /\ ops'[i].pc /= "cancelWait"

\* C26: while a generation is in progress or the tab is not connected no
\* call of sendMessage has an effect: no send starts, no request id is
\* generated, latestRequestId and requestCounter stay, no pending request
\* is aborted, no cancel notification and no request is sent, and no user
\* message is added (a send that passed the guard earlier and waited for
\* its cancel notification may go on).
C26_GuardedSend ==
    [][((isTyping \/ ~isConnected) /\ \A i \in Ops : ~Continues(i)) =>
          /\ UNCHANGED <<latestRequestId, requestCounter, issued,
                         cancelsSent>>
          /\ \A i \in Ops :
                /\ ops[i].pc = "idle" => ops'[i].kind /= "send"
                /\ ops'[i].aborted => ops[i].aborted
          /\ \A k \in 1..Len(chatMessages') :
                k > Len(chatMessages) => chatMessages'[k].sender /= "user"]_vars

\* a generation is in progress with a pending request that a send would
\* cancel, and the tab could still call sendMessage
C26_Witness ==
    /\ isTyping /\ isConnected /\ nOps < MaxOps
    /\ pendingAbortController /= 0 /\ pendingRequestId /= NoReq

C29_OrderedIds ==
    \A k, l \in 1..Len(issued) :
       (k < l /\ issued[k][1] = issued[l][1]) => issued[k][3] < issued[l][3]

\* the bot messages of invocation i among the messages shown
BotMessagesOf(i) ==
    {k \in 1..Len(chatMessages) :
        chatMessages[k].sender = "bot" /\ chatMessages[k].op = i}

\* C35: a send renders at most one bot message. A step adds at most one
\* message; a bot message is added for a send only while that invocation
\* reads its stream or waits for its smoothing delay and has neither
\* rendered a message nor been reported as failed or cancelled; the
\* invocation is then marked as rendered, and no send has two bot messages.
C35_OneBotMessage ==
    [][/\ Len(chatMessages') <= Len(chatMessages) + 1
       /\ \A k \in 1..Len(chatMessages') :
             (k > Len(chatMessages) /\ chatMessages'[k].sender = "bot") =>
                LET i == chatMessages'[k].op IN
                /\ ops[i].kind = "send"
                /\ ops[i].pc \in {"reading", "timer"}
                /\ ops[i].result = "none"
                /\ ops'[i].result = "rendered"
                /\ BotMessagesOf(i) = {}
       /\ \A i \in Ops :
             /\ ops[i].result /= "none" => ops'[i].result /= "none"
             /\ ops[i].kind = "send" => Cardinality(BotMessagesOf(i)) <= 1]_vars

\* a streaming send whose stream has ended showed one bot message, and a
\* send whose request failed showed none
C35_Witness ==
    /\ useStreaming
    /\ \E i, j \in Ops :
          /\ ops[i].kind = "send" /\ ops[i].pc = "done"
          /\ ops[i].result = "rendered"
          /\ Cardinality(BotMessagesOf(i)) = 1
          /\ ops[j].kind = "send" /\ ops[j].result = "errorShown"
          /\ BotMessagesOf(j) = {}

\* C36 (as stated): every request sent to a generate endpoint, by a send
\* or by a regeneration, carries a new request id that is not null and is
\* the latest one, with the invocation's abort handle registered as the
\* pending one; and every response shown belongs to the request that is
\* the latest one when it is shown.
C36_EveryRequestTracked ==
    [][\A i \in Ops :
          /\ (ops[i].pc /= "fetchWait" /\ ops'[i].pc = "fetchWait") =>
                /\ ops'[i].rid /= NoReq
                /\ ops'[i].rid = latestRequestId'
                /\ ops'[i].rid \notin IssuedIds
                /\ pendingAbortController' = i
                /\ pendingRequestId' = ops'[i].rid
          /\ (ops[i].result /= "rendered" /\ ops'[i].result = "rendered") =>
                /\ ops[i].rid /= NoReq
                /\ ~isStaleResponse(ops[i].rid, latestRequestId)]_vars

\* C34 (as stated): pendingAbortController is set exactly when
\* pendingRequestId is, and a pending request id is the latest request id
\* and is held only while isTyping is true.
C34_PendingConsistent ==
    /\ (pendingAbortController /= 0) <=> (pendingRequestId /= NoReq)
    /\ pendingRequestId /= NoReq =>
          (pendingRequestId = latestRequestId /\ isTyping)

\* C33 (as stated): whenever a send has issued its request, isTyping
\* eventually becomes false again, given that the responses the server
\* owes are delivered or end.
C33_LeavesGenerating ==
    (\E i \in Ops : ops[i].kind = "send" /\ ops[i].pc = "fetchWait")
       ~> ~isTyping

\* C27: a send issues its request only after its call of
\* cancelPendingRequest has returned; in the step in which it is issued
\* the counter advances by one, the latest pointer becomes the id built
\* from the tab's sessionId, the selected character and the new counter,
\* the request carries exactly this id, and the send's abort handle and
\* this id become the pending ones.
C27_SendOrder ==
    [][\A i \in Ops :
          (ops[i].pc /= "fetchWait" /\ ops'[i].pc = "fetchWait"
                                    /\ ops'[i].kind = "send") =>
             /\ \/ /\ ops[i].pc = "idle"
                   /\ ~(pendingAbortController /= 0
                          /\ pendingRequestId /= NoReq)
                \/ ops[i].pc = "cancelWait"
             /\ ~(cancelReturn'[1] /= 0 /\ cancelReturn'[2] /= NoReq)
             /\ requestCounter' = requestCounter + 1
             /\ latestRequestId' =
                   NewRequestId(sessionId, selectedCharacter, requestCounter')
             /\ latestRequestId' /= latestRequestId
             /\ ops'[i].rid = latestRequestId'
             /\ issued' = Append(issued, latestRequestId')
             /\ pendingAbortController' = i
             /\ pendingRequestId' = latestRequestId'
             /\ ~ops'[i].aborted]_vars

\* a send that cancelled a pending request of an earlier character has
\* issued its own request, which carries the latest id
C27_Witness ==
    /\ Len(cancelsSent) >= 1
    /\ \E i \in Ops :
          /\ ops[i].kind = "send" /\ ops[i].pc = "fetchWait"
          /\ ops[i].rid = latestRequestId
          /\ pendingRequestId = latestRequestId
          /\ cancelsSent[1][2] /= latestRequestId[2]

\* ------------------------------------------------------- router claims
\* a response of the endpoint leaves the router in this step
Answers(endpoint) == resp'.seq /= resp.seq /\ resp'.endpoint = endpoint

\* the handler of request r goes on after getChatbot resolved in this step
Resolved(r) ==
    /\ r.pc = "resolving"
    /\ CopiesIn(r, reqs') < CopiesIn(r, reqs)
    /\ ~(resp'.seq /= resp.seq /\ resp'.status = 500)

\* the starter fetch r passes the gate check in this step
Checked(r) == r.kind = "starter" /\ Resolved(r)

\* the generation of starter fetch r returns in this step
Generated(r) ==
    /\ r.kind = "starter" /\ r.pc = "generating"
    /\ CopiesIn(r, reqs') < CopiesIn(r, reqs)

Registry == <<sessions, lastActivity, charactersWithStarters>>

\* C5 (as stated): a cancel call that names a request is always answered
\* with the success acknowledgment, never with an error.
C5_CancelAlwaysAcks ==
    (resp.endpoint = "cancel" /\ resp.rid /= NoId) => resp.status = 200

\* C6 (as stated): two cancel calls in a row for the same session and
\* request are both accepted and leave the registry and the starter
\* records as they were.
C6_CancelIdempotent ==
    [][(/\ resp.endpoint = "cancel" /\ Answers("cancel")
        /\ resp.rid /= NoId
        /\ resp'.rid = resp.rid /\ resp'.sid = resp.sid)
          => /\ resp.status = 200 /\ resp'.status = 200
             /\ UNCHANGED Registry]_vars

\* C7: a starter fetch without force is answered with skipStarter and no
\* starter exactly when the gate of the resolved character is shown at the
\* check; otherwise generation runs, and when it succeeds the answer carries
\* a starter and the gate of that character is shown from then on.
C7_StarterOnce ==
    [][\A r \in BagToSet(reqs) :
          /\ (Checked(r) /\ ~r.force) =>
                LET active == getActiveCharacterName(sessions', r.sid) IN
                IF active \in charactersWithStarters
                THEN /\ Answers("starter") /\ resp'.status = 200
                     /\ resp'.skip /\ ~resp'.starter
                     /\ resp'.ch = active
                ELSE /\ resp' = resp
                     /\ \E g \in BagToSet(reqs') :
                           /\ g.kind = "starter" /\ g.pc = "generating"
                           /\ g.sid = r.sid /\ g.ch = active
          /\ (Generated(r) /\ ~r.force /\ resp'.status = 200) =>
                /\ Answers("starter")
                /\ resp'.starter /\ ~resp'.skip /\ resp'.ch = r.ch
                /\ r.ch \in charactersWithStarters']_vars

\* two sessions are bound to Echo and the last starter fetch for Echo was
\* skipped
C7_Witness ==
    /\ resp.endpoint = "starter" /\ resp.skip /\ resp.ch = "Echo"
    /\ \A s \in SessionIds :
          sessions[s].present /\ sessions[s].character = "Echo"

\* C8: a forced starter fetch is never skipped: generation runs also when
\* the gate is shown, a successful answer carries a starter and leaves the
\* gate of its character shown, and the fetch removes no gate and sets no
\* gate of another character.
C8_ForceBypass ==
    [][\A r \in BagToSet(reqs) :
          /\ (Checked(r) /\ r.force) =>
                /\ resp' = resp
                /\ \E g \in BagToSet(reqs') :
                      /\ g.kind = "starter" /\ g.pc = "generating"
                      /\ g.force /\ g.sid = r.sid
                      /\ g.ch = getActiveCharacterName(sessions', r.sid)
          /\ (Generated(r) /\ r.force) =>
                /\ Answers("starter") /\ ~resp'.skip
                /\ resp'.status = 200 =>
                      (resp'.starter /\ r.ch \in charactersWithStarters')
                /\ charactersWithStarters \subseteq charactersWithStarters'
                /\ charactersWithStarters' \subseteq
                      charactersWithStarters \cup {r.ch}]_vars

\* a forced fetch found the gate shown and its generation is running
C8_Witness ==
    \E r \in BagToSet(reqs) :
       /\ r.kind = "starter" /\ r.pc = "generating"
       /\ r.force /\ r.gateAtCheck
       /\ r.ch \in charactersWithStarters

\* C9: bulk delete by character C removes exactly the sessions bound to C,
\* clears the starter record of C and no other, leaves every other session
\* as it was, and reports the number of sessions removed.
C9_DeleteByCharacter ==
    [][Answers("deleteCharacter") =>
          LET C == resp'.ch
              matching == {s \in SessionIds :
                             sessions[s].present /\ sessions[s].character = C}
          IN /\ resp'.status = 200
             /\ \A s \in SessionIds :
                   sessions'[s] = IF s \in matching THEN Absent
                                  ELSE sessions[s]
             /\ lastActivity' = lastActivity \ matching
             /\ charactersWithStarters' = charactersWithStarters \ {C}
             /\ resp'.count = Cardinality(matching)]_vars

\* a bulk delete removed a session while a session of another character
\* and the starter record of that character stay
C9_Witness ==
    /\ resp.endpoint = "deleteCharacter" /\ resp.count >= 1
    /\ \E s \in SessionIds :
          /\ sessions[s].present /\ sessions[s].character /= resp.ch
          /\ sessions[s].character \in charactersWithStarters

\* C10: deleting session s answers with success, leaves every other
\* session and every starter record as it was, and changes nothing when s
\* does not exist.
C10_DeleteSessionFrame ==
    [][Answers("deleteSession") =>
          /\ resp'.status = 200
          /\ \A s \in SessionIds \ {resp'.sid} :
                /\ sessions'[s] = sessions[s]
                /\ (s \in lastActivity') = (s \in lastActivity)
          /\ ~sessions'[resp'.sid].present
          /\ charactersWithStarters' = charactersWithStarters
          /\ ~sessions[resp'.sid].present =>
                (UNCHANGED Registry /\ reqs' = reqs)]_vars

\* a session was deleted while another session and a starter record stay
C10_Witness ==
    /\ resp.endpoint = "deleteSession" /\ ~sessions[resp.sid].present
    /\ \E s \in SessionIds : sessions[s].present
    /\ charactersWithStarters /= {}

\* -------------------------------------------------------- codec claims
\* the part of the body the reads have delivered so far
Consumed == SubSeq(stream, 1, Len(stream) - Len(wire))

HasSeparator(s) ==
    \E i \in 1..(Len(s) - 1) : s[i] = NL /\ s[i + 1] = NL

\* C11: however the body is cut into reads, the events dispatched, the
\* callbacks made and the block carried over are those of a single read of
\* the same bytes; the carried block holds no complete block.
C11_ChunkingIndependent ==
    codecPc /= "idle" =>
       LET one == ProcessRead(CodecStart, Consumed) IN
       /\ log = one.log
       /\ messageData = one.messageData
       /\ buffer = one.buffer
       /\ ~HasSeparator(buffer)

\* a read ended between the two line breaks that close a done frame, after
\* a message frame was dispatched
C11_Witness ==
    /\ codecPc = "reading"
    /\ log = <<Event("message"), Call("onMessage")>>
    /\ buffer = <<"event:", "done", NL, "data:", ValidJson, NL>>
    /\ wire /= <<>> /\ Head(wire) = NL

\* JSON.parse(eventData) throws for this block
Unparseable(block) ==
    /\ ~Blank(block)
    /\ ParseLines(split(block, <<NL>>),
                  [eventType |-> <<"message">>,
                   eventData |-> <<>>]).eventData /= <<ValidJson>>

RECURSIVE JoinBlocks(_)
JoinBlocks(blocks) ==
    IF blocks = <<>> THEN <<>>
    ELSE Head(blocks) \o <<NL, NL>> \o JoinBlocks(Tail(blocks))

\* the body s with its complete unparseable blocks taken out
WithoutUnparseable(s) ==
    LET lines == split(s, <<NL, NL>>)
        blocks == SubSeq(lines, 1, Len(lines) - 1)
    IN JoinBlocks(SelectSeq(blocks, LAMBDA b : ~Unparseable(b)))
          \o lines[Len(lines)]

\* C31: an event block whose payload does not parse is skipped: the events
\* dispatched, the callbacks made and the message kept are those of the
\* same body without its unparseable blocks, the reads go on behind such a
\* block, and the call ends when the body does.
C31_BadBlockSkipped ==
    codecPc /= "idle" =>
       LET clean == ProcessRead(CodecStart, WithoutUnparseable(Consumed)) IN
       /\ log = clean.log
       /\ messageData = clean.messageData
       /\ codecPc \in {"reading", "ended"}
       /\ codecPc = "ended" => wire = <<>>

\* a message frame, a message frame whose data does not parse and a done
\* frame were read: the first message is handed to onDone
C31_Witness ==
    /\ codecPc = "ended"
    /\ stream = Frame("message", ValidJson) \o Frame("message", "bad")
                    \o Frame("done", ValidJson)
    /\ log = <<Event("message"), Call("onMessage"),
               Event("done"), Call("onDone")>>

\* C12: onDone is called only when a done frame is dispatched, and only
\* after a message frame of the same stream was dispatched before it.
C12_DoneAfterMessage ==
    \A k \in 1..Len(log) :
       log[k] = Call("onDone") =>
          /\ k > 1 /\ log[k - 1] = Event("done")
          /\ \E j \in 1..(k - 1) : log[j] = Event("message")

\* the stream ended after a message frame without a done frame, and before
\* that a done frame came with no message before it: onDone was not called
C12_Witness ==
    /\ codecPc = "ended"
    /\ log = <<Event("done"), Event("message"), Call("onMessage")>>

\* C17: the gate of a character becomes shown only in the step in which a
\* starter fetch that captured this character returns from a successful
\* generation, a failed generation changes no gate, and a shown gate is
\* removed only by bulk delete all or by bulk delete of that character.
C17_GateTransitions ==
    [][/\ \A c \in Characters :
             /\ (c \notin charactersWithStarters
                   /\ c \in charactersWithStarters') =>
                   /\ Answers("starter") /\ resp'.status = 200
                   /\ resp'.starter /\ resp'.ch = c
                   /\ \E r \in BagToSet(reqs) : Generated(r) /\ r.ch = c
             /\ (c \in charactersWithStarters
                   /\ c \notin charactersWithStarters') =>
                   \/ Answers("deleteAll")
                   \/ Answers("deleteCharacter") /\ resp'.ch = c
       /\ \A r \in BagToSet(reqs) :
             (Generated(r) /\ resp'.status = 500) =>
                charactersWithStarters' = charactersWithStarters]_vars

\* a generation failed and the gate of its character is still not shown,
\* while the gate of the other character is shown
C17_Witness ==
    /\ resp.endpoint = "starter" /\ resp.status = 500
    /\ charactersWithStarters /= {}
    /\ charactersWithStarters /= Characters

Ends(r) == CopiesIn(r, reqs') < CopiesIn(r, reqs)

C15_ValidationFirst ==
    [][((Answers("chat") \/ Answers("stream")) /\ resp'.status = 400) =>
          /\ UNCHANGED <<sessions, lastActivity, tracked,
                         charactersWithStarters, reqs>>
          /\ resp'.writes = <<>>]_vars

\* a blocking request was rejected while the session exists and has a
\* tracked request id
C15_Witness ==
    /\ resp.endpoint = "chat" /\ resp.status = 400
    /\ \E s \in SessionIds : sessions[s].present /\ tracked[s] /= NoId

\* C19: a generate or starter request that names character C and whose
\* session resolution succeeds finds C as the active character of its
\* session and captures it, and the characterName of its answer is the
\* captured one, also when another request has rebound the session to a
\* different character in between.
C19_ResolvesRequested ==
    [][\A r \in BagToSet(reqs) :
          /\ (Resolved(r) /\ r.ch /= NoChar) =>
                /\ getActiveCharacterName(sessions', r.sid) = r.ch
                /\ \/ /\ Answers("starter") /\ resp'.skip
                      /\ resp'.ch = r.ch
                   \/ \E g \in BagToSet(reqs') :
                         /\ CopiesIn(g, reqs') > CopiesIn(g, reqs)
                         /\ g.kind = r.kind /\ g.pc = "generating"
                         /\ g.sid = r.sid /\ g.ch = r.ch
          /\ (r.pc = "generating" /\ Ends(r) /\ resp'.status = 200) =>
                resp'.ch = r.ch]_vars

\* a blocking request captured its character and is generating while the
\* session has been rebound to another character
C19_Witness ==
    \E r \in BagToSet(reqs) :
       /\ r.kind = "chat" /\ r.pc = "generating"
       /\ sessions[r.sid].present
       /\ getActiveCharacterName(sessions, r.sid) /= r.ch

\* a handler returns in this step
Returns(r) ==
    /\ CopiesIn(r, reqs') < CopiesIn(r, reqs)
    /\ BagCardinality(reqs') < BagCardinality(reqs)

GoesOn(r) ==
    /\ r.kind \in {"chat", "stream"} /\ r.pc = "resolving"
    /\ CopiesIn(r, reqs') < CopiesIn(r, reqs)
    /\ resp' = resp

\* C30: request tracking is last-write-wins per session. Whatever generate
\* and cancel requests interleave on a session: the tracked ids change only
\* in the step in which a generate handler goes on after its session
\* resolution, in that step the session of the request exists, its tracked
\* id becomes the request id of that request whatever was tracked before,
\* the tracked ids of the other sessions stay, and the handler is then
\* generating, not yet answered; a cancel call is answered and changes
\* neither the tracked ids nor the requests being handled.
C30_LastWriteWins ==
    [][/\ \A r \in BagToSet(reqs) :
             GoesOn(r) =>
                /\ sessions'[r.sid].present
                /\ tracked' = [tracked EXCEPT ![r.sid] = r.rid]
                /\ \E g \in BagToSet(reqs') :
                      /\ g.kind = r.kind /\ g.sid = r.sid /\ g.rid = r.rid
                      /\ g.pc = "generating"
                      /\ CopiesIn(g, reqs') > CopiesIn(g, reqs)
       /\ tracked' /= tracked => \E r \in BagToSet(reqs) : GoesOn(r)
       /\ Answers("cancel") =>
             /\ UNCHANGED <<tracked, reqs, sessions>>
             /\ resp'.status \in {200, 400, 500}]_vars

\* two generate requests of one session are generating, a cancel call for
\* the first one's request id was answered, and the id tracked is the one
\* of the request that resolved last (none), not the first one's, while
\* the other session keeps its tracked id
C30_Witness ==
    /\ resp.endpoint = "cancel" /\ resp.sid = "s1" /\ resp.rid = "r1"
    /\ tracked["s1"] = NoId /\ tracked["s2"] = "r1"
    /\ \E r, g \in BagToSet(reqs) :
          /\ r.kind = "chat" /\ r.sid = "s1" /\ r.rid = "r1"
          /\ r.pc = "generating"
          /\ g.kind = "stream" /\ g.sid = "s1" /\ g.rid = NoId
          /\ g.pc = "generating"

\* a ProfileController call is taken up, goes on or returns in this step
ProfileStep == profileCalls' /= profileCalls \/ profileResult' /= profileResult

\* C32: setActiveProfile never changes an existing session. No step of a
\* ProfileController call changes the sessions, their last activity, the
\* tracked ids, the starter records or the requests being handled; the
\* active profile changes only when a setActiveProfile call returns its
\* name; and the character of a session that exists changes only in the
\* step in which a request of that session that names this other
\* character goes on after its session resolution, never in the step in
\* which a generation returns.
C32_ActiveProfileFrame ==
    [][/\ ProfileStep => UNCHANGED serverVars
       /\ activeProfile' /= activeProfile =>
             /\ profileResult'.op = "setActive" /\ profileResult'.ok
             /\ profileResult'.name = activeProfile'
             /\ profileResult'.seq /= profileResult.seq
       /\ \A sid \in SessionIds :
             (sessions[sid].present
                /\ sessions'[sid] /= sessions[sid]) =>
                \E r \in BagToSet(reqs) :
                   /\ GoesOn(r) /\ r.sid = sid
                   /\ r.ch /= NoChar /\ r.ch = sessions'[sid].character
                   /\ sessions'[sid].present]_vars

\* the active profile was changed after session s1 was created with the
\* former one: s1 keeps its character and the new session s2 got the new
\* profile
C32_Witness ==
    /\ activeProfile = "Kairos"
    /\ profileResult.op = "setActive" /\ profileResult.ok
    /\ sessions["s1"].present /\ sessions["s1"].character = "Echo"
    /\ sessions["s2"].present /\ sessions["s2"].character = "Kairos"
    /\ resp.endpoint = "chat" /\ resp.status = 200 /\ resp.ch = "Echo"

\* C37: the generate endpoints never change the starter gate. A step in
\* which a generate handler is taken up, goes on or returns leaves the
\* starter records as they were, and the needsStarter flag of a blocking
\* response is true exactly when the character the handler captured had
\* no starter record when the handler went on after session resolution,
\* whatever happened to the record while the response was generated.
C37_GenerateKeepsGate ==
    [][/\ (Answers("chat") \/ Answers("stream"))
             => UNCHANGED charactersWithStarters
       /\ \A r \in BagToSet(reqs) :
             /\ (r.kind \in {"chat", "stream"}
                   /\ CopiesIn(r, reqs') /= CopiesIn(r, reqs))
                   => UNCHANGED charactersWithStarters
             /\ (r.kind = "chat" /\ GoesOn(r)) =>
                   \E g \in BagToSet(reqs') :
                      /\ g.kind = "chat" /\ g.pc = "generating"
                      /\ CopiesIn(g, reqs') > CopiesIn(g, reqs)
                      /\ g.ch = getActiveCharacterName(sessions', r.sid)
                      /\ g.gateAtCheck = (g.ch \in charactersWithStarters)
             /\ (r.kind = "chat" /\ r.pc = "generating" /\ Ends(r)
                   /\ resp'.status = 200) =>
                   /\ Answers("chat")
                   /\ resp'.needsStarter = ~r.gateAtCheck]_vars

\* a blocking response says needsStarter although the character's starter
\* was shown while the response was generated
C37_Witness ==
    /\ resp.endpoint = "chat" /\ resp.status = 200 /\ resp.needsStarter
    /\ resp.ch \in charactersWithStarters

\* C38: a cancel call without a requestId is rejected with 400 before the
\* inference client is asked for (asking for it is what answers 500), and
\* the step changes no session, no activity time, no tracked id, no
\* starter record and no request in flight.
C38_CancelNeedsId ==
    [][(Answers("cancel") /\ resp'.rid = NoId) =>
          /\ resp'.status = 400
          /\ UNCHANGED <<sessions, lastActivity, tracked,
                         charactersWithStarters, reqs>>]_vars

\* a cancel call without a requestId was rejected while a session with a
\* tracked id existed and a request that carries that id was generating
C38_Witness ==
    /\ resp.endpoint = "cancel" /\ resp.status = 400 /\ resp.rid = NoId
    /\ \E r \in BagToSet(reqs) :
          /\ r.pc = "generating" /\ sessions[r.sid] /= Absent
          /\ r.rid /= NoId /\ tracked[r.sid] = r.rid

\* C39 (as stated): the profile-list cache never hides a completed write.
\* A listProfiles call that is answered from the cache while no saveProfile
\* and no deleteProfile call is in flight, so that every write the storage
\* holds has completed before the call started, returns the stored
\* profiles.
C39_CacheShowsWrites ==
    [][(/\ profileResult'.seq /= profileResult.seq
        /\ profileResult'.op = "list" /\ profileResult'.cached
        /\ WritesInFlight = 0)
          => profileResult'.list = storedProfiles]_vars

\* C23 (as stated): where no starter fetch is forced, a fetch returns a
\* starter only if no fetch has returned one for its character since the
\* starter record of that character was last reset, that is, only while the
\* gate of the character is not shown.
C23_GreetsOnce ==
    [][\A r \in BagToSet(reqs) :
          (Generated(r) /\ ~r.force /\ resp'.status = 200 /\ resp'.starter)
             => r.ch \notin charactersWithStarters]_vars

\* -------------------------------------------------- starter text claims
\* C22 (as stated): the starter returned holds no leaked marker and no
\* instruction fragment, is the fallback greeting of the active character
\* whenever the text cut at the marker is empty or holds an instruction
\* fragment, and is never empty.
C22_StarterClean ==
    cleanupPc = "returned" =>
       /\ ~includes(cleanedResponse, SystemMarker)
       /\ ~includes(cleanedResponse, RequirementsMarker)
       /\ LET cut == CutAtMarker(response) IN
          (cut = <<>> \/ includes(cut, RequirementsMarker)) =>
             cleanedResponse = Fallback(cleanupName)
       /\ cleanedResponse /= <<>>

====
